---- MODULE Spec2Model ----
(***************************************************************************)
(* The RISC-V datapath simulator: Simulator (constructor, setCode,         *)
(* setRegisters, tick) driving the clocked components of components.ts     *)
(* (ControlFSM, the five muxes, InstructionMemory, RAM, PC, JumpControl,   *)
(* ALU, RegisterFile) over the shared Wires record.                        *)
(*                                                                         *)
(* A Bits value is a sequence of 0/1 whose first element is bit 0 (the     *)
(* least significant bit), as in utils/bits.  A bigint is a two's          *)
(* complement sequence of BigWidth bits; BigWidth is wide enough for every *)
(* value the program computes (the widest is a 32 bit value shifted left   *)
(* by 31).                                                                 *)
(***************************************************************************)
EXTENDS Integers, Sequences, FiniteSets, TLC

\* ------------------------------------------------------------------------
\* bigint arithmetic (JavaScript BigInt), on two's complement bit sequences
\* ------------------------------------------------------------------------

BigWidth == 64

\* a function on 1..n, as the sequence it is
seq(f) == f \o << >>

\* bit i (0-based) of a natural number below 2^31
NatBit(n, i) == IF i <= 30 THEN (n \div (2 ^ i)) % 2 ELSE 0

\* the bigint of a natural number below 2^31
\* BigWidth zeros, BigWidth ones
Zeros == seq([i \in 1..BigWidth |-> 0])

Ones == seq([i \in 1..BigWidth |-> 1])

\* the bigint of a natural number below 2^31
big(n) == seq([i \in 1..31 |-> NatBit(n, i - 1)]) \o SubSeq(Zeros, 32, BigWidth)

\* the number whose bits (lowest first) are bits[i..]
RECURSIVE numFrom(_, _)
numFrom(bits, i) == IF i > Len(bits) THEN 0 ELSE bits[i] + 2 * numFrom(bits, i + 1)

\* additions are carried out Limb bits at a time
Limb == 16

\* bits i.. of a + b + carry; once nothing is left to add, the rest is a's
RECURSIVE addFrom(_, _, _, _)
addFrom(a, b, i, carry) ==
   IF i > Len(a) THEN << >>
   ELSE IF carry = 0 /\ SubSeq(b, i, Len(b)) = SubSeq(Zeros, i, Len(b))
   THEN SubSeq(a, i, Len(a))
   ELSE LET hi == IF i + Limb - 1 < Len(a) THEN i + Limb - 1 ELSE Len(a)
            s == numFrom(SubSeq(a, i, hi), 1) + numFrom(SubSeq(b, i, hi), 1) + carry
        IN  seq([k \in 1..(hi - i + 1) |-> NatBit(s, k - 1)])
               \o addFrom(a, b, hi + 1, s \div (2 ^ (hi - i + 1)))

\* the bigint with the 16 bit halves hi and lo: hi * 2^16 + lo
word(hi, lo) ==
   seq([i \in 1..BigWidth |->
          IF i <= 16 THEN NatBit(lo, i - 1)
          ELSE IF i <= 32 THEN NatBit(hi, i - 17) ELSE 0])

\* a + b
bigAdd(a, b) == addFrom(a, b, 1, 0)

bigNot(a) == seq([i \in 1..Len(a) |-> 1 - a[i]])

\* a - b
bigSub(a, b) == addFrom(a, bigNot(b), 1, 1)

\* -a
bigNeg(a) == bigSub(big(0), a)

\* a < b
bigLess(a, b) == bigSub(a, b)[BigWidth] = 1

\* a << k
bigShl(a, k) == SubSeq(Zeros, 1, k) \o SubSeq(a, 1, BigWidth - k)

\* a >> k (BigInt's >> keeps the sign)
bigShr(a, k) ==
   SubSeq(a, k + 1, BigWidth) \o SubSeq(IF a[BigWidth] = 1 THEN Ones ELSE Zeros, 1, k)

bigAnd(a, b) == seq([i \in 1..BigWidth |-> IF a[i] = 1 /\ b[i] = 1 THEN 1 ELSE 0])

bigOr(a, b) == seq([i \in 1..BigWidth |-> IF a[i] = 1 \/ b[i] = 1 THEN 1 ELSE 0])

bigXor(a, b) == seq([i \in 1..BigWidth |-> IF a[i] # b[i] THEN 1 ELSE 0])

\* ------------------------------------------------------------------------
\* utils/bits
\* ------------------------------------------------------------------------

\* Bits(num, length, signed) throws unless num fits in length bits
BitsInRange(num, length, signed) ==
   IF signed
   THEN SubSeq(num, length, BigWidth)
           = SubSeq(IF num[length] = 1 THEN Ones ELSE Zeros, length, BigWidth)
   ELSE SubSeq(num, length + 1, BigWidth) = SubSeq(Zeros, length + 1, BigWidth)

\* Bits(num, length, signed), for a num in range
Bits(num, length, signed) == SubSeq(num, 1, length)

\* Bits.toInt(bits, signed); an empty Bits is 0
toInt(bits, signed) ==
   bits \o SubSeq(IF signed /\ Len(bits) > 0 /\ bits[Len(bits)] = 1 THEN Ones ELSE Zeros,
                  Len(bits) + 1, BigWidth)

\* Bits.toNumber(bits), unsigned, for the short fields of an instruction
toNumber(bits) == numFrom(bits, 1)

\* bits.slice(from, to): bits from..to-1, counted from bit 0
slice(bits, from, to) == SubSeq(bits, from + 1, to)

\* Bits.extended(bits, length, signed)
extended(bits, length, signed) ==
   bits \o SubSeq(IF signed /\ Len(bits) > 0 /\ bits[Len(bits)] = 1 THEN Ones ELSE Zeros,
                  Len(bits) + 1, length)

\* Bits.join(a, b, ...) takes its arguments from the most significant down
join2(hi, lo) == lo \o hi

join3(a, b, c) == c \o b \o a

join5(a, b, c, d, e) == e \o d \o c \o b \o a

\* bits.every(b => b == 0)
allZero(bits) == bits = SubSeq(Zeros, 1, Len(bits))

\* ------------------------------------------------------------------------
\* utils/truthTable
\* ------------------------------------------------------------------------

\* [...str].reverse().map(c => c == "X" ? null : Number(c)): the pattern is
\* written most significant bit first; null is << >>
rowInputConv(str) ==
   seq([i \in 1..Len(str) |->
          LET c == str[Len(str) + 1 - i]
          IN  IF c = "X" THEN << >> ELSE IF c = "1" THEN << 1 >> ELSE << 0 >>])

\* new TruthTable(table): every row's patterns converted
TruthTable(table) ==
   seq([k \in 1..Len(table) |->
          << seq([j \in 1..Len(table[k][1]) |-> rowInputConv(table[k][1][j])]),
             table[k][2] >>])

\* a match input is a Bits value or a number
ofBits(bits) == [isBits |-> TRUE, bits |-> bits, num |-> 0]

ofNumber(n) == [isBits |-> FALSE, bits |-> << >>, num |-> n]

\* TruthTable.matchInput: "match", "differ", or "throw" (size mismatch, or a
\* number that does not fit in the pattern's width)
matchInput(input, expected) ==
   IF ~input.isBits /\ ~BitsInRange(big(input.num), Len(expected), FALSE) THEN "throw"
   ELSE LET bits == IF input.isBits THEN input.bits
                    ELSE Bits(big(input.num), Len(expected), FALSE)
        IN  IF Len(bits) # Len(expected) THEN "throw"
            ELSE IF \A i \in 1..Len(bits) :
                       expected[i] = << >> \/ expected[i] = << bits[i] >>
                 THEN "match" ELSE "differ"

\* rowInputs.every((expected, i) => matchInput(inputs[i], expected))
RECURSIVE rowEvery(_, _, _)
rowEvery(rowInputs, inputs, i) ==
   IF i > Len(rowInputs) THEN "match"
   ELSE LET r == matchInput(inputs[i], rowInputs[i])
        IN  IF r = "match" THEN rowEvery(rowInputs, inputs, i + 1) ELSE r

\* a match that scans the rows from the last one up, so that of two matching
\* rows the later one wins
RECURSIVE matchFrom_last_row_first(_, _, _)
matchFrom_last_row_first(table, inputs, k) ==
   IF k > Len(table) THEN [throws |-> TRUE, row |-> 0]
   ELSE LET r == rowEvery(table[Len(table) + 1 - k][1], inputs, 1)
        IN  IF r = "match" THEN [throws |-> FALSE, row |-> Len(table) + 1 - k]
            ELSE IF r = "throw" THEN [throws |-> TRUE, row |-> 0]
            ELSE matchFrom_last_row_first(table, inputs, k + 1)

\* TruthTable.match: the output of the first matching row; throws when a
\* size mismatches or no row matches
RECURSIVE matchFrom(_, _, _)
matchFrom(table, inputs, k) ==
   IF k > Len(table) THEN [throws |-> TRUE, row |-> 0]
   ELSE LET r == rowEvery(table[k][1], inputs, 1)
        IN  IF r = "match" THEN [throws |-> FALSE, row |-> k]
            ELSE IF r = "throw" THEN [throws |-> TRUE, row |-> 0]
            ELSE matchFrom(table, inputs, k + 1)

match(table, inputs) == matchFrom(table, inputs, 1)

\* ------------------------------------------------------------------------
\* simulator/memory: a sparse store of bytes below 2^32, little-endian
\* ------------------------------------------------------------------------

zeroByte == << 0, 0, 0, 0, 0, 0, 0, 0 >>

\* the addresses addr .. addr+size-1
byteOffsets == << big(0), big(1), big(2), big(3) >>

byteAddrs(addr, size) == seq([k \in 1..size |-> bigAdd(addr, byteOffsets[k])])

\* the bytes addr .. addr+size-1 all lie inside the memory
inMemory(addr, size) ==
   \A a \in {addr, bigAdd(addr, byteOffsets[size])} : BitsInRange(a, 32, FALSE)

memKey(a) == SubSeq(a, 1, 32)

byteAt(data, key) == IF key \in DOMAIN data THEN data[key] ELSE zeroByte

\* Memory.load(addr, size): the unsigned value of size bytes at addr
RECURSIVE loadFrom(_, _, _)
loadFrom(data, addrs, k) ==
   IF k > Len(addrs) THEN << >>
   ELSE byteAt(data, memKey(addrs[k])) \o loadFrom(data, addrs, k + 1)

load(data, addr, size) == toInt(loadFrom(data, byteAddrs(addr, size), 1), FALSE)

\* Memory.store(addr, size, val): the low size bytes of val, lowest first
RECURSIVE storeFrom(_, _, _, _)
storeFrom(data, addrs, val, k) ==
   IF k > Len(addrs) THEN data
   ELSE storeFrom((memKey(addrs[k]) :> SubSeq(val, 8 * k - 7, 8 * k)) @@ data,
                  addrs, val, k + 1)

store(data, addr, size, val) == storeFrom(data, byteAddrs(addr, size), val, 1)

\* Memory.storeArray(addr, size, values)
RECURSIVE storeArray(_, _, _, _, _)
storeArray(data, addr, size, values, i) ==
   IF i > Len(values) THEN data
   ELSE storeArray(store(data, addr, size, values[i]),
                   bigAdd(addr, big(size)), size, values, i + 1)

\* ------------------------------------------------------------------------
\* simulator/components: the enums
\* ------------------------------------------------------------------------

MemSize_Byte == 0
MemSize_HalfWord == 1
MemSize_Word == 2

FETCH == 0
DECODE == 1
EXECUTE == 2
MEMORY == 3
WRITEBACK == 4

ALUOp_Add == 0

WriteDataSrc_ALUOut == 0
WriteDataSrc_MemRead == 1
WriteDataSrc_PC4 == 2
WriteDataSrc_Imm == 3

ALUSrc1_Reg1 == 0
ALUSrc1_PC == 1

ALUSrc2_Reg2 == 0
ALUSrc2_Imm == 1

PCSrc_PC4 == 0
PCSrc_JumpControl == 1

JumpControlSrc_PCImm == 0
JumpControlSrc_RS1Imm == 1

MemAddrSrc_PC == 0
MemAddrSrc_ALUOut == 1

\* ------------------------------------------------------------------------
\* Wires: the signals between the components, as constructed
\* ------------------------------------------------------------------------

Wires ==
   [ loadInstr |-> 0, opcode |-> << >>, funct3 |-> << >>, funct7 |-> << >>,
     immediate |-> << >>,
     memWrite |-> 0, memSize |-> 0, memUnsigned |-> 0, memAddress |-> << >>,
     memReadData |-> << >>,
     pcVal |-> Bits(big(0), 32, FALSE), pcVal4 |-> Bits(big(4), 32, FALSE),
     pcIn |-> << >>, loadPC |-> 0,
     branchZero |-> 0, branchNotZero |-> 0, jumpControlSrc |-> 0,
     jumpAddr |-> << >>,
     aluOp |-> 0, aluAlt |-> 0, aluCalc |-> 0, aluIn1 |-> << >>,
     aluIn2 |-> << >>, aluOut |-> << >>, aluZero |-> 0,
     readReg1 |-> << >>, readReg2 |-> << >>, writeReg |-> << >>,
     readData1 |-> << >>, readData2 |-> << >>, writeData |-> << >>,
     regWrite |-> 0,
     writeDataMuxSrc |-> 0, aluSrc1 |-> 0, aluSrc2 |-> 0, pcSrc |-> 0,
     memAddrMuxSrc |-> 0 ]

\* ------------------------------------------------------------------------
\* ControlFSM
\* ------------------------------------------------------------------------

\* Takes opcode. Returns [func (funct3, funct7 -> aluAlt, aluOp), aluSrc1,
\* aluSrc2, aluCalc]
alu_table ==
   TruthTable(
   << << << <<"0","1","1","0","0","1","1">> >>, <<"R", ALUSrc1_Reg1, ALUSrc2_Reg2, 1>> >>,
      << << <<"0","0","1","0","0","1","1">> >>, <<"I", ALUSrc1_Reg1, ALUSrc2_Imm, 1>> >>,
      << << <<"0","0","1","0","1","1","1">> >>, <<"Add", ALUSrc1_PC, ALUSrc2_Imm, 1>> >>,
      << << <<"0","X","0","0","0","1","1">> >>, <<"Add", ALUSrc1_Reg1, ALUSrc2_Imm, 1>> >>,
      << << <<"1","1","0","0","0","1","1">> >>, <<"Branch", ALUSrc1_Reg1, ALUSrc2_Reg2, 1>> >>,
      << << <<"1","1","0","0","1","1","1">> >>, <<"Add", ALUSrc1_Reg1, ALUSrc2_Imm, 1>> >>,
      << << <<"1","1","0","1","1","1","1">> >>, <<"Add", ALUSrc1_PC, ALUSrc2_Imm, 1>> >>,
      << << <<"X","X","X","X","X","X","X">> >>, <<"Add", ALUSrc1_Reg1, ALUSrc2_Reg2, 0>> >> >>)

\* alu_func with the branch row leaving aluAlt clear, so that BEQ and BNE add
\* their operands instead of subtracting them
alu_func_branch_adds(func, funct3, funct7) ==
   CASE func = "R" -> << funct7[6], toNumber(funct3) >>
     [] func = "I" -> << 0, toNumber(funct3) >>
     [] func = "Branch" -> << 0, toNumber(slice(funct3, 1, 3)) >>
     [] OTHER -> << 0, ALUOp_Add >>

\* the first component of an alu_table row, applied: << aluAlt, aluOp >>
alu_func(func, funct3, funct7) ==
   CASE func = "R" -> << funct7[6], toNumber(funct3) >>
     [] func = "I" -> << 0, toNumber(funct3) >>
     [] func = "Branch" -> << 1, toNumber(slice(funct3, 1, 3)) >>
     [] OTHER -> << 0, ALUOp_Add >>

\* Takes opcode, funct3. Returns [memWrite, memAddrMuxSrc, memSize, memUnsigned]
memory_table ==
   TruthTable(
   << << << <<"0","0","0","0","0","1","1">>, <<"0","0","0">> >>, <<0, MemAddrSrc_ALUOut, MemSize_Byte, 0>> >>,
      << << <<"0","0","0","0","0","1","1">>, <<"0","0","1">> >>, <<0, MemAddrSrc_ALUOut, MemSize_HalfWord, 0>> >>,
      << << <<"0","0","0","0","0","1","1">>, <<"X","1","0">> >>, <<0, MemAddrSrc_ALUOut, MemSize_Word, 0>> >>,
      << << <<"0","0","0","0","0","1","1">>, <<"1","0","0">> >>, <<0, MemAddrSrc_ALUOut, MemSize_Byte, 1>> >>,
      << << <<"0","0","0","0","0","1","1">>, <<"1","0","1">> >>, <<0, MemAddrSrc_ALUOut, MemSize_HalfWord, 1>> >>,
      << << <<"0","1","0","0","0","1","1">>, <<"0","0","0">> >>, <<1, MemAddrSrc_ALUOut, MemSize_Byte, 0>> >>,
      << << <<"0","1","0","0","0","1","1">>, <<"0","0","1">> >>, <<1, MemAddrSrc_ALUOut, MemSize_HalfWord, 0>> >>,
      << << <<"0","1","0","0","0","1","1">>, <<"0","1","0">> >>, <<1, MemAddrSrc_ALUOut, MemSize_Word, 0>> >>,
      << << <<"X","X","X","X","X","X","X">>, <<"X","X","X">> >>, <<0, MemAddrSrc_PC, MemSize_Word, 0>> >> >>)

\* Takes opcode. Returns [regWrite, writeDataMuxSrc]
register_table ==
   TruthTable(
   << << << <<"0","X","1","0","0","1","1">> >>, <<1, WriteDataSrc_ALUOut>> >>,
      << << <<"0","0","1","0","1","1","1">> >>, <<1, WriteDataSrc_ALUOut>> >>,
      << << <<"0","1","1","0","1","1","1">> >>, <<1, WriteDataSrc_Imm>> >>,
      << << <<"0","0","0","0","0","1","1">> >>, <<1, WriteDataSrc_MemRead>> >>,
      << << <<"1","1","0","X","1","1","1">> >>, <<1, WriteDataSrc_PC4>> >>,
      << << <<"X","X","X","X","X","X","X">> >>, <<0, WriteDataSrc_ALUOut>> >> >>)

\* Takes opcode, funct3. Returns [branchZero, branchNotZero, jumpControlSrc]
jump_table ==
   TruthTable(
   << << << <<"1","1","0","0","1","1","1">>, <<"X","X","X">> >>, <<1, 1, JumpControlSrc_RS1Imm>> >>,
      << << <<"1","1","0","1","1","1","1">>, <<"X","X","X">> >>, <<1, 1, JumpControlSrc_PCImm>> >>,
      << << <<"1","1","0","0","0","1","1">>, <<"0","0","0">> >>, <<1, 0, JumpControlSrc_PCImm>> >>,
      << << <<"1","1","0","0","0","1","1">>, <<"0","0","1">> >>, <<0, 1, JumpControlSrc_PCImm>> >>,
      << << <<"1","1","0","0","0","1","1">>, <<"1","0","0">> >>, <<0, 1, JumpControlSrc_PCImm>> >>,
      << << <<"1","1","0","0","0","1","1">>, <<"1","0","1">> >>, <<1, 0, JumpControlSrc_PCImm>> >>,
      << << <<"1","1","0","0","0","1","1">>, <<"1","1","0">> >>, <<0, 1, JumpControlSrc_PCImm>> >>,
      << << <<"1","1","0","0","0","1","1">>, <<"1","1","1">> >>, <<1, 0, JumpControlSrc_PCImm>> >>,
      << << <<"X","X","X","X","X","X","X">>, <<"X","X","X">> >>, <<0, 0, JumpControlSrc_PCImm>> >> >>)

\* ControlFSM.reset_outputs
ControlFSM_reset_outputs(w) ==
   [w EXCEPT !.loadInstr = 0, !.memWrite = 0, !.memSize = MemSize_Word,
             !.memUnsigned = 0, !.loadPC = 0, !.branchZero = 0,
             !.branchNotZero = 0, !.jumpControlSrc = JumpControlSrc_PCImm,
             !.aluOp = ALUOp_Add, !.aluAlt = 0, !.aluCalc = 0, !.regWrite = 0,
             !.writeDataMuxSrc = WriteDataSrc_ALUOut, !.aluSrc1 = ALUSrc1_Reg1,
             !.aluSrc2 = ALUSrc2_Reg2, !.memAddrMuxSrc = MemAddrSrc_PC]

\* ControlFSM.rising_edge, EXECUTE: set up the ALU
ControlFSM_execute(m, w) ==
   LET r == match(alu_table, << ofBits(w.opcode) >>)
       row == alu_table[r.row][2]
       f == alu_func(row[1], w.funct3, w.funct7)
   IN  IF r.throws THEN [m EXCEPT !.wires = w, !.thrown = "Error"]
       ELSE [m EXCEPT !.wires = [w EXCEPT !.aluAlt = f[1], !.aluOp = f[2],
                                          !.aluSrc1 = row[2], !.aluSrc2 = row[3],
                                          !.aluCalc = row[4]]]

\* ControlFSM.rising_edge, MEMORY: write to or read from memory
ControlFSM_memory(m, w) ==
   LET r == match(memory_table, << ofBits(w.opcode), ofBits(w.funct3) >>)
       row == memory_table[r.row][2]
   IN  IF r.throws THEN [m EXCEPT !.wires = w, !.thrown = "Error"]
       ELSE [m EXCEPT !.wires = [w EXCEPT !.memWrite = row[1],
                                          !.memAddrMuxSrc = row[2],
                                          !.memSize = row[3],
                                          !.memUnsigned = row[4]]]

\* ControlFSM.rising_edge, WRITEBACK: register write, jump controller, PC load
ControlFSM_writeback(m, w) ==
   LET r == match(register_table, << ofBits(w.opcode), ofBits(w.funct3) >>)
       row == register_table[r.row][2]
       w1 == [w EXCEPT !.regWrite = row[1], !.writeDataMuxSrc = row[2]]
       j == match(jump_table, << ofBits(w.opcode), ofBits(w.funct3) >>)
       jrow == jump_table[j.row][2]
   IN  IF r.throws THEN [m EXCEPT !.wires = w, !.thrown = "Error"]
       ELSE IF j.throws THEN [m EXCEPT !.wires = w1, !.thrown = "Error"]
       ELSE [m EXCEPT !.wires = [w1 EXCEPT !.branchZero = jrow[1],
                                           !.branchNotZero = jrow[2],
                                           !.jumpControlSrc = jrow[3],
                                           !.loadPC = 1]]

\* ControlFSM.rising_edge
ControlFSM_rising_edge(m) ==
   LET w == ControlFSM_reset_outputs(m.wires)
   IN  CASE m.state = FETCH ->
              [m EXCEPT !.wires = [w EXCEPT !.memSize = MemSize_Word,
                                            !.memAddrMuxSrc = MemAddrSrc_PC]]
         [] m.state = DECODE -> [m EXCEPT !.wires = [w EXCEPT !.loadInstr = 1]]
         [] m.state = EXECUTE -> ControlFSM_execute(m, w)
         [] m.state = MEMORY -> ControlFSM_memory(m, w)
         [] m.state = WRITEBACK -> ControlFSM_writeback(m, w)
         [] OTHER -> [m EXCEPT !.wires = w]

\* the falling edge as once written, this.state + 1 % 5: the state never wraps
ControlFSM_falling_edge_no_wrap(m) == [m EXCEPT !.state = m.state + (1 % 5)]

\* ControlFSM.falling_edge
ControlFSM_falling_edge(m) == [m EXCEPT !.state = (m.state + 1) % 5]

\* ------------------------------------------------------------------------
\* InstructionMemory
\* ------------------------------------------------------------------------

\* Takes opcode. Returns the immediate format
immediate_table ==
   TruthTable(
   << << << <<"0","1","1","0","0","1","1">> >>, "R" >>,
      << << <<"0","0","X","0","0","1","1">> >>, "I" >>,
      << << <<"1","1","0","0","1","1","1">> >>, "I" >>,
      << << <<"0","1","0","0","0","1","1">> >>, "S" >>,
      << << <<"1","1","0","0","0","1","1">> >>, "SB" >>,
      << << <<"0","X","1","0","1","1","1">> >>, "U" >>,
      << << <<"1","1","0","1","1","1","1">> >>, "UJ" >> >>)

\* an immediate generator that takes the two top bits of the SB immediate in
\* the wrong order, instruction bit 7 above instruction bit 31
imm_gen_sb_bits_swapped(format, i) ==
   CASE format = "R" -> << 0 >>
     [] format = "I" -> slice(i, 20, 32)
     [] format = "S" -> join2(slice(i, 25, 32), slice(i, 7, 12))
     [] format = "SB" ->
          join5(<< i[8] >>, << i[32] >>, slice(i, 25, 31), slice(i, 8, 12), << 0 >>)
     [] format = "U" -> join2(slice(i, 12, 32), Bits(big(0), 12, FALSE))
     [] format = "UJ" ->
          join5(<< i[32] >>, slice(i, 12, 20), << i[21] >>, slice(i, 21, 31), << 0 >>)

\* the second component of an immediate_table row, applied to the instruction
imm_gen(format, i) ==
   CASE format = "R" -> << 0 >>
     [] format = "I" -> slice(i, 20, 32)
     [] format = "S" -> join2(slice(i, 25, 32), slice(i, 7, 12))
     [] format = "SB" ->
          join5(<< i[32] >>, << i[8] >>, slice(i, 25, 31), slice(i, 8, 12), << 0 >>)
     [] format = "U" -> join2(slice(i, 12, 32), Bits(big(0), 12, FALSE))
     [] format = "UJ" ->
          join5(<< i[32] >>, slice(i, 12, 20), << i[21] >>, slice(i, 21, 31), << 0 >>)

\* an instruction memory that tests the latch for the end of the program before
\* loading it
InstructionMemory_rising_edge_stale_test(m) ==
   LET instr == IF m.wires.loadInstr = 1 THEN m.wires.memReadData ELSE m.instruction
       w == [m.wires EXCEPT !.opcode = slice(instr, 0, 7),
                            !.writeReg = slice(instr, 7, 12),
                            !.funct3 = slice(instr, 12, 15),
                            !.readReg1 = slice(instr, 15, 20),
                            !.readReg2 = slice(instr, 20, 25),
                            !.funct7 = slice(instr, 25, 32)]
       r == match(immediate_table, << ofBits(w.opcode) >>)
       imm == imm_gen(immediate_table[r.row][2], instr)
   IN  IF allZero(m.instruction)
       THEN [m EXCEPT !.instruction = instr, !.thrown = "EndOfProgram"]
       ELSE IF r.throws
       THEN [m EXCEPT !.instruction = instr, !.wires = w, !.thrown = "Error"]
       ELSE [m EXCEPT !.instruction = instr,
                      !.wires = [w EXCEPT !.immediate = extended(imm, 32, TRUE)]]

\* an instruction memory that gives an instruction no row decodes the
\* immediate 0 instead of raising an error
InstructionMemory_rising_edge_default_immediate(m) ==
   LET instr == IF m.wires.loadInstr = 1 THEN m.wires.memReadData ELSE m.instruction
       w == [m.wires EXCEPT !.opcode = slice(instr, 0, 7),
                            !.writeReg = slice(instr, 7, 12),
                            !.funct3 = slice(instr, 12, 15),
                            !.readReg1 = slice(instr, 15, 20),
                            !.readReg2 = slice(instr, 20, 25),
                            !.funct7 = slice(instr, 25, 32)]
       r == match(immediate_table, << ofBits(w.opcode) >>)
       imm == IF r.throws THEN << 0 >> ELSE imm_gen(immediate_table[r.row][2], instr)
   IN  IF allZero(instr)
       THEN [m EXCEPT !.instruction = instr, !.thrown = "EndOfProgram"]
       ELSE [m EXCEPT !.instruction = instr,
                      !.wires = [w EXCEPT !.immediate = extended(imm, 32, TRUE)]]

\* an instruction memory that loads the latch on every rising edge, whatever
\* loadInstr
InstructionMemory_rising_edge_always_loads(m) ==
   LET instr == m.wires.memReadData
       w == [m.wires EXCEPT !.opcode = slice(instr, 0, 7),
                            !.writeReg = slice(instr, 7, 12),
                            !.funct3 = slice(instr, 12, 15),
                            !.readReg1 = slice(instr, 15, 20),
                            !.readReg2 = slice(instr, 20, 25),
                            !.funct7 = slice(instr, 25, 32)]
       r == match(immediate_table, << ofBits(w.opcode) >>)
       imm == imm_gen(immediate_table[r.row][2], instr)
   IN  IF allZero(instr)
       THEN [m EXCEPT !.instruction = instr, !.thrown = "EndOfProgram"]
       ELSE IF r.throws
       THEN [m EXCEPT !.instruction = instr, !.wires = w, !.thrown = "Error"]
       ELSE [m EXCEPT !.instruction = instr,
                      !.wires = [w EXCEPT !.immediate = extended(imm, 32, TRUE)]]

\* an instruction memory that decodes the fields from the latch as it was
\* before this edge loaded it
InstructionMemory_rising_edge_decodes_old_latch(m) ==
   LET instr == IF m.wires.loadInstr = 1 THEN m.wires.memReadData ELSE m.instruction
       w == [m.wires EXCEPT !.opcode = slice(instr, 0, 7),
                            !.writeReg = slice(m.instruction, 7, 12),
                            !.funct3 = slice(m.instruction, 12, 15),
                            !.readReg1 = slice(m.instruction, 15, 20),
                            !.readReg2 = slice(m.instruction, 20, 25),
                            !.funct7 = slice(m.instruction, 25, 32)]
       r == match(immediate_table, << ofBits(w.opcode) >>)
       imm == imm_gen(immediate_table[r.row][2], instr)
   IN  IF allZero(instr)
       THEN [m EXCEPT !.instruction = instr, !.thrown = "EndOfProgram"]
       ELSE IF r.throws
       THEN [m EXCEPT !.instruction = instr, !.wires = w, !.thrown = "Error"]
       ELSE [m EXCEPT !.instruction = instr,
                      !.wires = [w EXCEPT !.immediate = extended(imm, 32, TRUE)]]

\* InstructionMemory.rising_edge
InstructionMemory_rising_edge(m) ==
   LET instr == IF m.wires.loadInstr = 1 THEN m.wires.memReadData ELSE m.instruction
       w == [m.wires EXCEPT !.opcode = slice(instr, 0, 7),
                            !.writeReg = slice(instr, 7, 12),
                            !.funct3 = slice(instr, 12, 15),
                            !.readReg1 = slice(instr, 15, 20),
                            !.readReg2 = slice(instr, 20, 25),
                            !.funct7 = slice(instr, 25, 32)]
       r == match(immediate_table, << ofBits(w.opcode) >>)
       imm == imm_gen(immediate_table[r.row][2], instr)
   IN  IF allZero(instr)
       THEN [m EXCEPT !.instruction = instr, !.thrown = "EndOfProgram"]
       ELSE IF r.throws
       THEN [m EXCEPT !.instruction = instr, !.wires = w, !.thrown = "Error"]
       ELSE [m EXCEPT !.instruction = instr,
                      !.wires = [w EXCEPT !.immediate = extended(imm, 32, TRUE)]]

\* ------------------------------------------------------------------------
\* RAM
\* ------------------------------------------------------------------------

RAM_table ==
   TruthTable(
   << << << <<"0","0">> >>, 1 >>,
      << << <<"0","1">> >>, 2 >>,
      << << <<"1","0">> >>, 4 >> >>)

\* a RAM whose write port is wired to readData1, the base register of a store,
\* instead of readData2
RAM_rising_edge_stores_readData1(m) ==
   LET addr == toInt(m.wires.memAddress, FALSE)
       data == toInt(m.wires.readData1, FALSE)
       r == match(RAM_table, << ofNumber(m.wires.memSize) >>)
       size == RAM_table[r.row][2]
       stored == IF m.wires.memWrite = 1 THEN store(m.data, addr, size, data) ELSE m.data
   IN  IF r.throws THEN [m EXCEPT !.thrown = "Error"]
       ELSE IF ~inMemory(addr, size) THEN [m EXCEPT !.thrown = "Error"]
       ELSE [m EXCEPT !.data = stored,
                      !.readOutput = Bits(load(stored, addr, size), 32, FALSE)]

\* a RAM that stores a whole word whatever memSize
RAM_rising_edge_stores_words(m) ==
   LET addr == toInt(m.wires.memAddress, FALSE)
       data == toInt(m.wires.readData2, FALSE)
       r == match(RAM_table, << ofNumber(m.wires.memSize) >>)
       size == RAM_table[r.row][2]
       stored == IF m.wires.memWrite = 1 THEN store(m.data, addr, 4, data) ELSE m.data
   IN  IF r.throws THEN [m EXCEPT !.thrown = "Error"]
       ELSE IF ~inMemory(addr, size) THEN [m EXCEPT !.thrown = "Error"]
       ELSE [m EXCEPT !.data = stored,
                      !.readOutput = Bits(load(stored, addr, size), 32, FALSE)]

\* RAM.rising_edge
RAM_rising_edge(m) ==
   LET addr == toInt(m.wires.memAddress, FALSE)
       data == toInt(m.wires.readData2, FALSE)
       r == match(RAM_table, << ofNumber(m.wires.memSize) >>)
       size == RAM_table[r.row][2]
       stored == IF m.wires.memWrite = 1 THEN store(m.data, addr, size, data) ELSE m.data
   IN  IF r.throws THEN [m EXCEPT !.thrown = "Error"]
       ELSE IF ~inMemory(addr, size) THEN [m EXCEPT !.thrown = "Error"]
       ELSE [m EXCEPT !.data = stored,
                      !.readOutput = Bits(load(stored, addr, size), 32, FALSE)]

\* RAM.falling_edge
RAM_falling_edge(m) == [m EXCEPT !.wires.memReadData = m.readOutput]

\* ------------------------------------------------------------------------
\* PC
\* ------------------------------------------------------------------------

\* a PC that loads pcIn on every rising edge, whatever loadPC
PC_rising_edge_always_loads(m) == [m EXCEPT !.val = m.wires.pcIn]

\* PC.rising_edge
PC_rising_edge(m) ==
   IF m.wires.loadPC = 1 THEN [m EXCEPT !.val = m.wires.pcIn] ELSE m

\* a PC that publishes val + 4 without wrapping it: Bits(nextVal, 32) throws
\* once nextVal reaches 2^32
PC_falling_edge_no_wrap(m) ==
   LET nextVal == bigAdd(toInt(m.val, FALSE), big(4))
   IN  IF ~BitsInRange(nextVal, 32, FALSE)
       THEN [m EXCEPT !.wires.pcVal = m.val, !.thrown = "Error"]
       ELSE [m EXCEPT !.wires.pcVal = m.val,
                      !.wires.pcVal4 = Bits(nextVal, 32, FALSE)]

\* PC.falling_edge: nextVal & 0xFFFF_FFFF wraps in case of overflow
PC_falling_edge(m) ==
   LET nextVal == bigAdd(toInt(m.val, FALSE), big(4))
       wrapped == toInt(SubSeq(nextVal, 1, 32), FALSE)
   IN  [m EXCEPT !.wires.pcVal = m.val,
                 !.wires.pcVal4 = Bits(wrapped, 32, FALSE)]

\* ------------------------------------------------------------------------
\* JumpControl
\* ------------------------------------------------------------------------

\* JumpControl.rising_edge
JumpControl_rising_edge(m) ==
   LET w == m.wires
       shouldBranch == (w.branchZero = 1 /\ w.aluZero = 1)
                          \/ (w.branchNotZero = 1 /\ w.aluZero # 1)
       w1 == [w EXCEPT !.pcSrc = IF shouldBranch THEN PCSrc_JumpControl ELSE PCSrc_PC4]
       baseBits == IF w.jumpControlSrc = JumpControlSrc_PCImm THEN w.pcVal ELSE w.readData1
       base == toInt(baseBits, FALSE)
       offset == toInt(w.immediate, TRUE)
       jumpAddr == bigAdd(base, offset)
   IN  IF ~BitsInRange(jumpAddr, 33, FALSE)
       THEN [m EXCEPT !.wires = w1, !.thrown = "Error"]
       ELSE [m EXCEPT !.wires = [w1 EXCEPT !.jumpAddr = slice(Bits(jumpAddr, 33, FALSE), 0, 32)]]

\* ------------------------------------------------------------------------
\* ALU
\* ------------------------------------------------------------------------

\* Takes aluOp, aluAlt. Returns [signed, op]
ALU_table ==
   TruthTable(
   << << << <<"0","0","0">>, <<"0">> >>, << TRUE, "Add" >> >>,
      << << <<"0","0","0">>, <<"1">> >>, << TRUE, "Sub" >> >>,
      << << <<"0","0","1">>, <<"X">> >>, << TRUE, "ShiftLeftLogical" >> >>,
      << << <<"0","1","0">>, <<"X">> >>, << TRUE, "SetLessThan" >> >>,
      << << <<"0","1","1">>, <<"X">> >>, << FALSE, "SetLessThan" >> >>,
      << << <<"1","0","0">>, <<"X">> >>, << TRUE, "Xor" >> >>,
      << << <<"1","0","1">>, <<"0">> >>, << FALSE, "ShiftRight" >> >>,
      << << <<"1","0","1">>, <<"1">> >>, << TRUE, "ShiftRight" >> >>,
      << << <<"1","1","0">>, <<"X">> >>, << TRUE, "Or" >> >>,
      << << <<"1","1","1">>, <<"X">> >>, << TRUE, "And" >> >> >>)

\* b & 0x1F, as a number
shamt(b) == toNumber(SubSeq(b, 1, 5))

\* the second component of an ALU_table row, applied
ALU_op(op, a, b) ==
   CASE op = "Add" -> bigAdd(a, b)
     [] op = "Sub" -> bigSub(a, b)
     [] op = "ShiftLeftLogical" -> bigShl(a, shamt(b))
     [] op = "SetLessThan" -> IF bigLess(a, b) THEN big(1) ELSE big(0)
     [] op = "Xor" -> bigXor(a, b)
     [] op = "ShiftRight" -> bigShr(a, shamt(b))
     [] op = "Or" -> bigOr(a, b)
     [] op = "And" -> bigAnd(a, b)

\* ALU.rising_edge
ALU_rising_edge(m) ==
   LET r == match(ALU_table, << ofNumber(m.wires.aluOp), ofNumber(m.wires.aluAlt) >>)
       signed == ALU_table[r.row][2][1]
       in1 == toInt(m.wires.aluIn1, signed)
       in2 == toInt(m.wires.aluIn2, signed)
       result == ALU_op(ALU_table[r.row][2][2], in1, in2)
   IN  IF m.wires.aluCalc # 1 THEN m
       ELSE IF r.throws THEN [m EXCEPT !.thrown = "Error"]
       ELSE IF ~BitsInRange(result, 33, signed) THEN [m EXCEPT !.thrown = "Error"]
       ELSE [m EXCEPT !.output = slice(Bits(result, 33, signed), 0, 32)]

\* ALU.falling_edge
ALU_falling_edge(m) ==
   [m EXCEPT !.wires.aluOut = m.output,
             !.wires.aluZero = IF allZero(m.output) THEN 1 ELSE 0]

\* ------------------------------------------------------------------------
\* RegisterFile
\* ------------------------------------------------------------------------

\* a register file that writes whenever regWrite is asserted, register 0 included
RegisterFile_rising_edge_writes_zero(m) ==
   LET reg1 == toNumber(m.wires.readReg1)
       reg2 == toNumber(m.wires.readReg2)
       writeReg == toNumber(m.wires.writeReg)
       m1 == [m EXCEPT !.out1 = m.registers[reg1], !.out2 = m.registers[reg2]]
   IN  IF m.wires.regWrite = 1
       THEN [m1 EXCEPT !.registers[writeReg] = m.wires.writeData]
       ELSE m1

\* a register file that writes on every rising edge, whatever regWrite
RegisterFile_rising_edge_ignores_regWrite(m) ==
   LET reg1 == toNumber(m.wires.readReg1)
       reg2 == toNumber(m.wires.readReg2)
       writeReg == toNumber(m.wires.writeReg)
       m1 == [m EXCEPT !.out1 = m.registers[reg1], !.out2 = m.registers[reg2]]
   IN  IF writeReg # 0
       THEN [m1 EXCEPT !.registers[writeReg] = m.wires.writeData]
       ELSE m1

\* RegisterFile.rising_edge
RegisterFile_rising_edge(m) ==
   LET reg1 == toNumber(m.wires.readReg1)
       reg2 == toNumber(m.wires.readReg2)
       writeReg == toNumber(m.wires.writeReg)
       m1 == [m EXCEPT !.out1 = m.registers[reg1], !.out2 = m.registers[reg2]]
   IN  IF m.wires.regWrite = 1 /\ writeReg # 0
       THEN [m1 EXCEPT !.registers[writeReg] = m.wires.writeData]
       ELSE m1

\* RegisterFile.falling_edge
RegisterFile_falling_edge(m) ==
   [m EXCEPT !.wires.readData1 = m.out1, !.wires.readData2 = m.out2]

\* ------------------------------------------------------------------------
\* The muxes
\* ------------------------------------------------------------------------

\* WriteDataMux.rising_edge
WriteDataMux_rising_edge(m) ==
   LET w == m.wires
   IN  CASE w.writeDataMuxSrc = WriteDataSrc_ALUOut -> [m EXCEPT !.wires.writeData = w.aluOut]
         [] w.writeDataMuxSrc = WriteDataSrc_MemRead -> [m EXCEPT !.wires.writeData = w.memReadData]
         [] w.writeDataMuxSrc = WriteDataSrc_PC4 -> [m EXCEPT !.wires.writeData = w.pcVal4]
         [] w.writeDataMuxSrc = WriteDataSrc_Imm -> [m EXCEPT !.wires.writeData = w.immediate]
         [] OTHER -> m

\* ALUSrcMux1.rising_edge
ALUSrcMux1_rising_edge(m) ==
   LET w == m.wires
   IN  CASE w.aluSrc1 = ALUSrc1_Reg1 -> [m EXCEPT !.wires.aluIn1 = w.readData1]
         [] w.aluSrc1 = ALUSrc1_PC -> [m EXCEPT !.wires.aluIn1 = w.pcVal]
         [] OTHER -> m

\* ALUSrcMux2.rising_edge
ALUSrcMux2_rising_edge(m) ==
   LET w == m.wires
   IN  CASE w.aluSrc2 = ALUSrc2_Reg2 -> [m EXCEPT !.wires.aluIn2 = w.readData2]
         [] w.aluSrc2 = ALUSrc2_Imm -> [m EXCEPT !.wires.aluIn2 = w.immediate]
         [] OTHER -> m

\* PCSrcMux.rising_edge
PCSrcMux_rising_edge(m) ==
   LET w == m.wires
   IN  CASE w.pcSrc = PCSrc_PC4 -> [m EXCEPT !.wires.pcIn = w.pcVal4]
         [] w.pcSrc = PCSrc_JumpControl -> [m EXCEPT !.wires.pcIn = w.jumpAddr]
         [] OTHER -> m

\* MemAddrMux.rising_edge
MemAddrMux_rising_edge(m) ==
   LET w == m.wires
   IN  CASE w.memAddrMuxSrc = MemAddrSrc_ALUOut -> [m EXCEPT !.wires.memAddress = w.aluOut]
         [] w.memAddrMuxSrc = MemAddrSrc_PC -> [m EXCEPT !.wires.memAddress = w.pcVal]
         [] OTHER -> m

\* ------------------------------------------------------------------------
\* Simulator
\* ------------------------------------------------------------------------

VARIABLES
   code,          \* Simulator.code
   wires,         \* Simulator.wires
   state,         \* ControlFSM.state
   instruction,   \* InstructionMemory.instruction
   data,          \* RAM.data
   readOutput,    \* RAM.readOutput
   val,           \* PC.val
   output,        \* ALU.output
   registers,     \* RegisterFile.registers
   out1,          \* RegisterFile.out1
   out2,          \* RegisterFile.out2
   componentList, \* Simulator.componentList: the components' names, in tick order
   called,        \* the method called last
   returned,      \* what it returned: "true", "false", "void", or "Error" when it threw
   lookup,        \* a TruthTable of its own, the inputs of a match call, the outcome
   assembly,      \* a text given to the assembler, and the outcome
   ui             \* the VisualSim that owns the simulator, and the window's timers

vars == << code, wires, state, instruction, data, readOutput, val, output,
           registers, out1, out2, componentList, called, returned, lookup,
           assembly, ui >>

textStart == 65536

\* an order that pushes the register file before the instruction memory
pushOrderRegisterFileFirst ==
   << "controlFSM", "writeDataMux", "aluSrcMux1", "aluSrcMux2", "pcMux",
      "memAddrMux", "registerFile", "instructionMemory", "ram", "pc",
      "jumpControl", "alu" >>

\* an order that pushes JumpControl before the PC mux, so that the mux sees
\* the pcSrc of the same tick
pushOrderJumpControlBeforePCMux ==
   << "controlFSM", "writeDataMux", "aluSrcMux1", "aluSrcMux2", "jumpControl",
      "pcMux", "memAddrMux", "instructionMemory", "ram", "pc", "alu",
      "registerFile" >>

\* the constructor variant that pushes JumpControl right after the FSM
pushOrderJumpControlSecond ==
   << "controlFSM", "jumpControl", "writeDataMux", "aluSrcMux1", "aluSrcMux2",
      "pcMux", "memAddrMux", "instructionMemory", "ram", "pc", "alu",
      "registerFile" >>

\* the order in which the constructor pushes the components: the FSM, the
\* muxes, the instruction memory, then the rest with JumpControl after PC
pushOrder ==
   << "controlFSM", "writeDataMux", "aluSrcMux1", "aluSrcMux2", "pcMux",
      "memAddrMux", "instructionMemory", "ram", "pc", "jumpControl", "alu",
      "registerFile" >>

\* component.rising_edge()
rising_edge(component, m) ==
   CASE component = "controlFSM" -> ControlFSM_rising_edge(m)
     [] component = "writeDataMux" -> WriteDataMux_rising_edge(m)
     [] component = "aluSrcMux1" -> ALUSrcMux1_rising_edge(m)
     [] component = "aluSrcMux2" -> ALUSrcMux2_rising_edge(m)
     [] component = "pcMux" -> PCSrcMux_rising_edge(m)
     [] component = "memAddrMux" -> MemAddrMux_rising_edge(m)
     [] component = "instructionMemory" -> InstructionMemory_rising_edge(m)
     [] component = "ram" -> RAM_rising_edge(m)
     [] component = "pc" -> PC_rising_edge(m)
     [] component = "jumpControl" -> JumpControl_rising_edge(m)
     [] component = "alu" -> ALU_rising_edge(m)
     [] component = "registerFile" -> RegisterFile_rising_edge(m)

\* component.falling_edge(); the muxes, InstructionMemory and JumpControl do
\* nothing on the falling edge
falling_edge(component, m) ==
   CASE component = "controlFSM" -> ControlFSM_falling_edge(m)
     [] component = "ram" -> RAM_falling_edge(m)
     [] component = "pc" -> PC_falling_edge(m)
     [] component = "alu" -> ALU_falling_edge(m)
     [] component = "registerFile" -> RegisterFile_falling_edge(m)
     [] OTHER -> m

\* the rising edge loop of tick: stops at the first component that throws
RECURSIVE risingFrom(_, _, _)
risingFrom(list, m, i) ==
   IF i > Len(list) THEN m
   ELSE LET m1 == rising_edge(list[i], m)
        IN  IF m1.thrown # "none" THEN m1 ELSE risingFrom(list, m1, i + 1)

\* the falling edge loop of tick
RECURSIVE fallingFrom(_, _, _)
fallingFrom(list, m, i) ==
   IF i > Len(list) THEN m
   ELSE fallingFrom(list, falling_edge(list[i], m), i + 1)

\* a tick that runs the falling edges before the rising edges
tick_falling_first(m) ==
   risingFrom(componentList, fallingFrom(componentList, m, 1), 1)

\* a tick that runs the falling edges after the end of the program as well
tick_falls_after_end(m) ==
   LET r == risingFrom(componentList, m, 1)
   IN  IF r.thrown = "Error" THEN r ELSE fallingFrom(componentList, r, 1)

\* Simulator.tick on the components' state m: thrown = "none" returns true,
\* "EndOfProgram" returns false, "Error" is rethrown
tick(m) ==
   LET r == risingFrom(componentList, m, 1)
   IN  IF r.thrown # "none" THEN r ELSE fallingFrom(componentList, r, 1)

\* a setRegisters without the test for register 0
RECURSIVE setRegistersFrom_accepts_zero(_, _, _, _)
setRegistersFrom_accepts_zero(regFile, regs, keys, i) ==
   IF i > Len(keys) THEN [registers |-> regFile, thrown |-> "none"]
   ELSE LET reg == keys[i]
        IN  IF bigLess(regs[reg], big(0))
            THEN [registers |-> regFile, thrown |-> "Error"]
            ELSE IF ~BitsInRange(regs[reg], 32, FALSE)
            THEN [registers |-> regFile, thrown |-> "Error"]
            ELSE setRegistersFrom_accepts_zero(
                    [regFile EXCEPT ![reg] = Bits(regs[reg], 32, FALSE)],
                    regs, keys, i + 1)

\* Simulator.setRegisters, from the i-th key of the map on (keys ascending)
RECURSIVE setRegistersFrom(_, _, _, _)
setRegistersFrom(regFile, regs, keys, i) ==
   IF i > Len(keys) THEN [registers |-> regFile, thrown |-> "none"]
   ELSE LET reg == keys[i]
        IN  IF bigLess(regs[reg], big(0))
            THEN [registers |-> regFile, thrown |-> "Error"]
            ELSE IF reg = 0 /\ regs[reg] # big(0)
            THEN [registers |-> regFile, thrown |-> "Error"]
            ELSE IF ~BitsInRange(regs[reg], 32, FALSE)
            THEN [registers |-> regFile, thrown |-> "Error"]
            ELSE setRegistersFrom([regFile EXCEPT ![reg] = Bits(regs[reg], 32, FALSE)],
                                  regs, keys, i + 1)

\* the keys of a register map, ascending
RECURSIVE sortedKeys(_)
sortedKeys(S) ==
   IF S = {} THEN << >>
   ELSE LET k == CHOOSE x \in S : \A y \in S : x <= y
        IN  << k >> \o sortedKeys(S \ {k})

setRegisters(regFile, regs) ==
   setRegistersFrom(regFile, regs, sortedKeys(DOMAIN regs), 1)

\* the setCode of the simulator whose textStart is 0: the words stored at 0
setCode_at_zero(mem, words) == storeArray(mem, big(0), 4, words, 1)

\* Simulator.setCode: the RAM after storing the words at textStart
setCode(mem, words) == storeArray(mem, big(textStart), 4, words, 1)

\* the components' state, as tick sees it
Machine ==
   [ wires |-> wires, state |-> state, instruction |-> instruction,
     data |-> data, readOutput |-> readOutput, val |-> val, output |-> output,
     registers |-> registers, out1 |-> out1, out2 |-> out2, thrown |-> "none" ]

\* new Simulator(c, regs): the register file after the constructor's two
\* setRegisters calls
constructedRegisters(regs) ==
   LET zero == [r \in 0..31 |-> Bits(big(0), 32, FALSE)]
       spgp == (2 :> word(49151, 65520)) @@ (3 :> word(4096, 32768))
   IN  setRegisters(setRegisters(zero, spgp).registers, regs)

\* no truth table besides the components' own
NoLookup == [rows |-> << >>, inputs |-> << >>, done |-> FALSE, throws |-> FALSE, value |-> ""]

\* new VisualSim(): unstarted and not playing; no interval timer of the window
\* is active and the window has handed out no timer handle; the handler that
\* ran last called neither start() nor sim.tick()
VisualSim ==
   [state |-> "unstarted", playing |-> 0, timers |-> {}, handles |-> 0,
    started |-> "no", ticked |-> "no"]

\* no text given to the assembler
NoAssembly == [program |-> << >>, done |-> FALSE, result |-> << >>]

\* new Simulator(c, regs), for a register map the constructor accepts
Constructed(c, regs, order) ==
   /\ lookup = NoLookup
   /\ assembly = NoAssembly
   /\ ui = VisualSim
   /\ code = c
   /\ componentList = order
   /\ wires = [Wires EXCEPT !.pcVal = Bits(big(textStart), 32, FALSE)]
   /\ state = FETCH
   /\ instruction = Bits(big(19), 32, FALSE)
   /\ data = setCode(<< >>, c)
   /\ readOutput = << >>
   /\ val = Bits(big(textStart), 32, FALSE)
   /\ output = Bits(big(0), 32, TRUE)
   /\ registers = constructedRegisters(regs).registers
   /\ out1 = Bits(big(0), 32, FALSE)
   /\ out2 = Bits(big(0), 32, FALSE)
   /\ called = "constructor"
   /\ returned = "void"

\* sim.tick()
Tick ==
   \E m \in {tick(Machine)} :
       /\ wires' = m.wires
       /\ state' = m.state
       /\ instruction' = m.instruction
       /\ data' = m.data
       /\ readOutput' = m.readOutput
       /\ val' = m.val
       /\ output' = m.output
       /\ registers' = m.registers
       /\ out1' = m.out1
       /\ out2' = m.out2
       /\ called' = "tick"
       /\ returned' = CASE m.thrown = "none" -> "true"
                        [] m.thrown = "EndOfProgram" -> "false"
                        [] OTHER -> "Error"
       /\ UNCHANGED << code, componentList, lookup, assembly, ui >>

\* sim.setRegisters(regs)
SetRegisters(regs) ==
   \E r \in {setRegisters(registers, regs)} :
       /\ registers' = r.registers
       /\ called' = "setRegisters"
       /\ returned' = IF r.thrown = "none" THEN "void" ELSE "Error"
       /\ UNCHANGED << code, wires, state, instruction, data, readOutput, val,
                       output, out1, out2, componentList, lookup, assembly, ui >>

\* ------------------------------------------------------------------------
\* Machine code for the programs the simulator is run on
\* ------------------------------------------------------------------------

\* the w low bits of n, for n >= -2^(w-1)
enc(n, w) == seq([i \in 1..w |-> NatBit((n + 2 ^ w) % (2 ^ w), i - 1)])

RType(funct7, rs2, rs1, funct3, rd, opcode) ==
   toInt(enc(opcode, 7) \o enc(rd, 5) \o enc(funct3, 3) \o enc(rs1, 5)
            \o enc(rs2, 5) \o enc(funct7, 7), FALSE)

IType(imm, rs1, funct3, rd, opcode) ==
   toInt(enc(opcode, 7) \o enc(rd, 5) \o enc(funct3, 3) \o enc(rs1, 5)
            \o enc(imm, 12), FALSE)

SType(imm, rs2, rs1, funct3, opcode) ==
   toInt(enc(opcode, 7) \o SubSeq(enc(imm, 12), 1, 5) \o enc(funct3, 3)
            \o enc(rs1, 5) \o enc(rs2, 5) \o SubSeq(enc(imm, 12), 6, 12), FALSE)

SBType(imm, rs2, rs1, funct3, opcode) ==
   LET i == enc(imm, 13)
   IN  toInt(enc(opcode, 7) \o << i[12] >> \o SubSeq(i, 2, 5) \o enc(funct3, 3)
                \o enc(rs1, 5) \o enc(rs2, 5) \o SubSeq(i, 6, 11) \o << i[13] >>, FALSE)

UType(imm, rd, opcode) ==
   toInt(enc(opcode, 7) \o enc(rd, 5) \o enc(imm, 20), FALSE)

UJType(imm, rd, opcode) ==
   LET i == enc(imm, 21)
   IN  toInt(enc(opcode, 7) \o enc(rd, 5) \o SubSeq(i, 13, 20) \o << i[12] >>
                \o SubSeq(i, 2, 11) \o << i[21] >>, FALSE)

ADDI(rd, rs1, imm) == IType(imm, rs1, 0, rd, 19)
LUI(rd, imm) == UType(imm, rd, 55)
AUIPC(rd, imm) == UType(imm, rd, 23)
JAL(rd, imm) == UJType(imm, rd, 111)
JALR(rd, rs1, imm) == IType(imm, rs1, 0, rd, 103)
BRANCH(funct3, rs1, rs2, imm) == SBType(imm, rs2, rs1, funct3, 99)
LOAD(funct3, rd, rs1, imm) == IType(imm, rs1, funct3, rd, 3)
STORE(funct3, rs2, rs1, imm) == SType(imm, rs2, rs1, funct3, 35)
OP(funct7, funct3, rd, rs1, rs2) == RType(funct7, rs2, rs1, funct3, rd, 51)
OPIMM(funct3, rd, rs1, imm) == IType(imm, rs1, funct3, rd, 19)

NoRegs == << >>

\* 0x7FFFFFFF, 0x80000000, 0xFFFFFFFF
MaxInt == word(32767, 65535)

MinInt == word(32768, 0)

AllOnes == word(65535, 65535)

\* the counting loop and the call and return
Loop == << ADDI(5, 0, 3), ADDI(5, 5, -1), BRANCH(1, 5, 0, -4) >>

CallReturn == << JAL(1, 8), ADDI(5, 0, 1), JALR(0, 1, 0) >>

\* the end-to-end scenarios
Scenarios ==
   { [code |-> << ADDI(5, 0, -1) >>, regs |-> NoRegs],
     [code |-> << LUI(28, 100000) >>, regs |-> NoRegs],
     [code |-> << AUIPC(5, 0) >>, regs |-> NoRegs],
     [code |-> Loop, regs |-> NoRegs],
     [code |-> << ADDI(6, 0, 291), STORE(2, 6, 0, 0), LOAD(2, 7, 0, 0) >>, regs |-> NoRegs],
     [code |-> CallReturn, regs |-> NoRegs] }

\* programs whose instructions name x0 as rd with regWrite asserted
ZeroWriters ==
   { [code |-> << ADDI(0, 0, 5), ADDI(6, 0, 1) >>, regs |-> NoRegs],
     [code |-> << LUI(0, 1) >>, regs |-> NoRegs],
     [code |-> << JAL(0, 8), ADDI(5, 0, 1), ADDI(0, 5, 2) >>, regs |-> NoRegs],
     [code |-> << LOAD(2, 0, 5, 0) >>, regs |-> (5 :> big(textStart))],
     [code |-> << OP(0, 0, 0, 2, 3) >>, regs |-> (0 :> big(0))] }

\* 0xFFFFFFFC, the last word of the address space
TopWord == word(65535, 65532)

\* a program that stores addi x6,x0,1 in the last word of the address space and
\* jumps to it, so that the next sequential PC is 2^32
WrapPrograms ==
   { [code |-> << STORE(2, 12, 11, 0), JALR(0, 11, 0) >>,
      regs |-> (11 :> TopWord) @@ (12 :> ADDI(6, 0, 1))] }

\* programs holding a word no row of the immediate table decodes: ecall
\* (opcode 1110011), fence (0001111), and the opcodes 0000000 and 1111111
\* in a non-zero word
UndefinedPrograms ==
   { [code |-> << big(115) >>, regs |-> NoRegs],
     [code |-> << big(15) >>, regs |-> NoRegs],
     [code |-> << ADDI(6, 0, 1), big(128) >>, regs |-> NoRegs],
     [code |-> << ADDI(6, 0, 1), IType(1, 5, 0, 7, 127) >>, regs |-> NoRegs] }

Programs == Scenarios \cup ZeroWriters \cup WrapPrograms \cup UndefinedPrograms

\* the register maps setRegisters is called with
RegMaps ==
   { (0 :> big(0)) @@ (5 :> big(1)) @@ (9 :> AllOnes),
     (0 :> big(1)) @@ (8 :> big(9)),
     (8 :> big(9)) @@ (10 :> bigNeg(big(1))),
     (4 :> big(9)) @@ (7 :> bigShl(big(1), 32)) }

Init ==
   \E p \in Programs : \E order \in {pushOrder, pushOrderJumpControlSecond} :
      Constructed(p.code, p.regs, order)

Next == Tick \/ \E regs \in RegMaps : SetRegisters(regs)

\* the simulator as a library: constructed, then ticked and given registers in
\* any order
Spec == Init /\ [][Next]_vars

\* setRegisters called at any point of the life of a simulator that was
\* constructed with a register map of its own
InitRegs ==
   \E order \in {pushOrder, pushOrderJumpControlSecond} :
      Constructed(<< ADDI(5, 0, -1), ADDI(8, 5, 1) >>, (4 :> big(7)) @@ (31 :> MaxInt), order)

SpecRegs == InitRegs /\ [][Next]_vars

\* ------------------------------------------------------------------------
\* Simulator.run on single instructions over the corner values of a register
\* ------------------------------------------------------------------------

\* every branch on every pair of corner values
BranchPrograms ==
   { [code |-> << BRANCH(f, 5, 6, 8) >>, regs |-> (5 :> a) @@ (6 :> b)] :
        f \in {0, 1, 4, 5, 6, 7}, a, b \in {big(0), big(1), MaxInt, MinInt, AllOnes} }

\* << funct7, funct3 >> of add, sub, sll, slt, sltu, xor, srl, sra, or, and
RTypeOps ==
   { << 0, 0 >>, << 32, 0 >>, << 0, 1 >>, << 0, 2 >>, << 0, 3 >>, << 0, 4 >>,
     << 0, 5 >>, << 32, 5 >>, << 0, 6 >>, << 0, 7 >> }

\* every register-register operation on corner values
ALUPrograms ==
   { [code |-> << OP(o[1], o[2], 7, 5, 6) >>, regs |-> (5 :> a) @@ (6 :> b)] :
        o \in RTypeOps, a \in {big(1), big(3), MaxInt, MinInt, AllOnes},
        b \in {big(1), big(31), MaxInt, MinInt, AllOnes} }

\* << funct3, imm >> of the register-immediate operations, with and without
\* instruction bit 30; 1025 is shift amount 1 with bit 30 set, which makes
\* funct3 = 5 SRAI and is no instruction for funct3 = 1
ImmOps == ((0..7) \X {1, 31, 1025}) \ {<< 1, 1025 >>}

ImmPrograms ==
   { [code |-> << OPIMM(o[1], 7, 5, o[2]) >>, regs |-> (5 :> a)] :
        o \in ImmOps, a \in {big(1), MinInt} }

\* every load of a data word placed behind the end of the program
LoadPrograms ==
   { [code |-> << LOAD(f, 7, 5, 0), big(0), d >>, regs |-> (5 :> big(textStart + 8))] :
        f \in {0, 1, 2, 4, 5},
        d \in {big(255), big(127), big(32768), word(4660, 22136), AllOnes} }

\* a byte stored and loaded back, signed and unsigned
StoreLoadPrograms ==
   { [code |-> << ADDI(6, 0, 255), STORE(0, 6, 3, 0), LOAD(f, 7, 3, 0) >>,
      regs |-> NoRegs] : f \in {0, 4} }

\* the instructions that write rd from the immediate or the PC
LinkPrograms ==
   { [code |-> << AUIPC(5, 1) >>, regs |-> NoRegs],
     [code |-> << LUI(5, 524288) >>, regs |-> NoRegs],
     [code |-> << JAL(1, 8), big(0), ADDI(6, 0, 1) >>, regs |-> NoRegs],
     [code |-> << JALR(1, 5, 4) >>, regs |-> (5 :> big(textStart + 4))],
     [code |-> << JALR(1, 0, -4) >>, regs |-> NoRegs] }

\* the values stored: 0x123, 0x12345678, 0x80FF, 0xFFFFFFFF
StoredValues == {big(291), word(4660, 22136), big(33023), AllOnes}

\* a store of each size at x5 + 8 followed by a load of the same size there,
\* and a word store followed by a byte load at each of its four bytes
RoundTripPrograms ==
   { [code |-> << STORE(p[1], 6, 5, 8), LOAD(p[2], 7, 5, 8 + p[3]) >>,
      regs |-> (5 :> a) @@ (6 :> v)] :
        p \in {<< 0, 0, 0 >>, << 0, 4, 0 >>, << 1, 1, 0 >>, << 1, 5, 0 >>, << 2, 2, 0 >>}
                 \cup ({2} \X {0, 4} \X (0..3)),
        a \in {big(0), word(2, 0)}, v \in StoredValues }

\* jumps whose target sum reaches 2^32 (jalr from 0xFFFFFFFC), and backward
\* jumps and branches from the start of the program
JumpPrograms ==
   { [code |-> << JALR(1, 5, 8) >>, regs |-> (5 :> TopWord)],
     [code |-> << JALR(1, 5, 2047) >>, regs |-> (5 :> AllOnes)],
     [code |-> << JAL(1, -8) >>, regs |-> NoRegs],
     [code |-> << BRANCH(0, 5, 6, -8) >>, regs |-> NoRegs] }

\* stores whose funct3 names no size, at x5 + 8
OtherStorePrograms ==
   { [code |-> << STORE(f, 6, 5, 8), LOAD(2, 7, 5, 8) >>,
      regs |-> (5 :> word(2, 0)) @@ (6 :> AllOnes)] : f \in {3, 4, 7} }

\* an instruction that writes a register the next one reads: as both ALU
\* operands, as a branch operand, as store data, as store base, as load base
\* and as JALR base; the register holds another value before
DependentPrograms ==
   { [code |-> << ADDI(5, 0, 7), OP(0, 0, 6, 5, 5) >>, regs |-> (5 :> big(100))],
     [code |-> << ADDI(5, 0, 1), BRANCH(0, 5, 0, 8) >>, regs |-> NoRegs],
     [code |-> << ADDI(6, 0, 291), STORE(2, 6, 5, 8) >>,
      regs |-> (5 :> word(2, 0)) @@ (6 :> AllOnes)],
     [code |-> << ADDI(5, 0, 64), STORE(2, 6, 5, 8) >>,
      regs |-> (5 :> word(2, 0)) @@ (6 :> AllOnes)],
     [code |-> << ADDI(5, 0, 64), LOAD(2, 7, 5, 8) >>, regs |-> (5 :> word(2, 0))],
     [code |-> << ADDI(5, 0, 16), JALR(1, 5, 4) >>, regs |-> (5 :> word(2, 0))] }

RunPrograms ==
   Scenarios \cup BranchPrograms \cup ALUPrograms \cup ImmPrograms
      \cup LoadPrograms \cup StoreLoadPrograms \cup LinkPrograms
      \cup RoundTripPrograms \cup JumpPrograms \cup OtherStorePrograms
      \cup DependentPrograms

InitRun ==
   \E p \in RunPrograms : \E order \in {pushOrder, pushOrderJumpControlSecond} :
      Constructed(p.code, p.regs, order)

\* one turn of run(): while (this.tick()) { }
Run == returned \in {"void", "true"} /\ Tick

\* new Simulator(code, regs).run()
SpecRun == InitRun /\ [][Run]_vars

\* ------------------------------------------------------------------------
\* Simulator.run on single assembled instructions, over each format's
\* immediates
\* ------------------------------------------------------------------------

\* the bigint of an integer of magnitude below 2^23
bigOf(n) == toInt(enc(n, 24), TRUE)

\* immediates of the 12 bit formats: the ends of the range, both signs, and
\* alternating bit patterns
Imm12 == {-2048, -1366, -1, 0, 1, 5, 1365, 2047}

\* even immediates of the 13 bit SB format; 2048 and 1024 are bits 11 and 10
ImmSB == {-4096, -2730, -2, 0, 2, 1024, 2048, 2730, 4094}

\* immediates of the 20 bit U format
ImmU == {-524288, -349526, -1, 0, 1, 349525, 524287}

\* even immediates of the 21 bit UJ format; 2048 and 4096 are bits 11 and 12
ImmUJ == {-1048576, -699050, -2, 0, 2, 2048, 4096, 699050, 1048574}

\* assembleInstr on instructions of every format: the type, the immediate and
\* the assembled word
Assembled ==
   { [type |-> "I", imm |-> v, word |-> IType(v, 5, o[1], 7, o[2])] :
        v \in Imm12, o \in {<< 0, 19 >>, << 2, 3 >>, << 0, 103 >>} }
   \cup { [type |-> "S", imm |-> v, word |-> SType(v, 6, 5, 2, 35)] : v \in Imm12 }
   \cup { [type |-> "SB", imm |-> v, word |-> SBType(v, 6, 5, f, 99)] :
             v \in ImmSB, f \in {0, 1} }
   \cup { [type |-> "U", imm |-> v, word |-> UType(v, 7, o)] : v \in ImmU, o \in {55, 23} }
   \cup { [type |-> "UJ", imm |-> v, word |-> UJType(v, 1, 111)] : v \in ImmUJ }
   \cup { [type |-> "R", imm |-> 0, word |-> RType(f, 6, 5, 0, 7, 51)] : f \in {0, 32} }

InitAsm ==
   \E a \in Assembled : \E order \in {pushOrder, pushOrderJumpControlSecond} :
      Constructed(<< a.word >>, NoRegs, order)

\* new Simulator([assembleInstr(instr)]).run()
SpecAsm == InitAsm /\ [][Run]_vars

\* new Simulator(code, regs).run() with the constructor that pushes JumpControl
\* after PC
InitPushOrder ==
   \E p \in RunPrograms : Constructed(p.code, p.regs, pushOrder)

SpecPushOrder == InitPushOrder /\ [][Run]_vars

\* ------------------------------------------------------------------------
\* TruthTable.match on a table with overlapping rows and no catch-all row
\* ------------------------------------------------------------------------

\* the rows as given to the constructor: patterns of three bits and of one
\* bit, most significant bit first
LookupRows ==
   << << << <<"1","0","X">>, <<"0">> >>, "first" >>,
      << << <<"1","X","X">>, <<"X">> >>, "second" >>,
      << << <<"0","0","1">>, <<"1">> >>, "third" >>,
      << << <<"X","X","1">>, <<"1">> >>, "fourth" >> >>

\* every Bits value of the given width
BitsOfWidth(w) == { seq(f) : f \in [1..w -> {0, 1}] }

MaxWidth == 4

\* the inputs of a call: a first input of width 2 to MaxWidth and a second one
\* of width 1 or 2
LookupInputs ==
   { << a, b >> : a \in UNION { BitsOfWidth(w) : w \in 2..MaxWidth },
                  b \in BitsOfWidth(1) \cup BitsOfWidth(2) }

InitLookup ==
   /\ \E i \in LookupInputs :
         lookup = [NoLookup EXCEPT !.rows = LookupRows, !.inputs = i]
   /\ assembly = NoAssembly
   /\ ui = VisualSim
   /\ code = << >>
   /\ componentList = pushOrder
   /\ wires = Wires
   /\ state = FETCH
   /\ instruction = Bits(big(19), 32, FALSE)
   /\ data = << >>
   /\ readOutput = << >>
   /\ val = Bits(big(0), 32, FALSE)
   /\ output = Bits(big(0), 32, TRUE)
   /\ registers = [r \in 0..31 |-> Bits(big(0), 32, FALSE)]
   /\ out1 = Bits(big(0), 32, FALSE)
   /\ out2 = Bits(big(0), 32, FALSE)
   /\ called = "TruthTable"
   /\ returned = "void"

\* new TruthTable(rows).match(...inputs)
Match ==
   /\ ~lookup.done
   /\ \E t \in {TruthTable(lookup.rows)} :
       \E r \in {match(t, << ofBits(lookup.inputs[1]), ofBits(lookup.inputs[2]) >>)} :
          /\ lookup' = [lookup EXCEPT !.done = TRUE, !.throws = r.throws,
                                      !.value = IF r.throws THEN "" ELSE t[r.row][2]]
          /\ returned' = IF r.throws THEN "Error" ELSE t[r.row][2]
   /\ called' = "match"
   /\ UNCHANGED << code, wires, state, instruction, data, readOutput, val, output,
                   registers, out1, out2, componentList, assembly, ui >>

SpecLookup == InitLookup /\ [][Match]_vars

\* ------------------------------------------------------------------------
\* assembler/assembler.ts: assembleKeepLineInfo, from the outcome of the parser
\* on the program text to the Program or the error
\* ------------------------------------------------------------------------

\* simulator/constants: the registers by name (some of them)
constants_registers ==
   [zero |-> 0, ra |-> 1, sp |-> 2, x0 |-> 0, x1 |-> 1, x5 |-> 5, x6 |-> 6, x7 |-> 7]

\* simulator/constants: opcode, funct3 and funct7 of each instruction
constants_opcodes ==
   [add |-> << 51, 0, 0 >>, sub |-> << 51, 0, 32 >>, and |-> << 51, 7, 0 >>,
    or |-> << 51, 6, 0 >>, xor |-> << 51, 4, 0 >>, sll |-> << 51, 1, 0 >>,
    sra |-> << 51, 5, 32 >>, srl |-> << 51, 5, 0 >>, slt |-> << 51, 2, 0 >>,
    sltu |-> << 51, 3, 0 >>,
    addi |-> << 19, 0, 0 >>, andi |-> << 19, 7, 0 >>, ori |-> << 19, 6, 0 >>,
    xori |-> << 19, 4, 0 >>, slti |-> << 19, 2, 0 >>, sltiu |-> << 19, 3, 0 >>,
    slli |-> << 19, 1, 0 >>, srai |-> << 19, 5, 32 >>, srli |-> << 19, 5, 0 >>,
    beq |-> << 99, 0, 0 >>, bne |-> << 99, 1, 0 >>, blt |-> << 99, 4, 0 >>,
    bge |-> << 99, 5, 0 >>, bltu |-> << 99, 6, 0 >>, bgeu |-> << 99, 7, 0 >>,
    jal |-> << 111, 0, 0 >>, jalr |-> << 103, 0, 0 >>,
    lui |-> << 55, 0, 0 >>, auipc |-> << 23, 0, 0 >>,
    lb |-> << 3, 0, 0 >>, lh |-> << 3, 1, 0 >>, lw |-> << 3, 2, 0 >>,
    lbu |-> << 3, 4, 0 >>, lhu |-> << 3, 5, 0 >>,
    sb |-> << 35, 0, 0 >>, sh |-> << 35, 1, 0 >>, sw |-> << 35, 2, 0 >>]

\* an argument the parser made of a number.  Its value is kept under a name of
\* its own, number, as a string and a number are never compared.
num(n) == [type |-> "num", number |-> n]

\* an argument the parser made of an identifier
id(name) == [type |-> "id", value |-> name]

\* an argument the parser made of the rest of a line: the character codes of
\* its text, kept under chars
anything(codes) == [type |-> "any", chars |-> codes]

\* the size of each sized data directive
sizedData == [byte |-> 1, half |-> 2, word |-> 4, dword |-> 8]

\* the bytes of value, least significant first
RECURSIVE dataBytes(_, _)
dataBytes(value, size) ==
   IF size = 0 THEN << >>
   ELSE << bigAnd(value, big(255)) >> \o dataBytes(bigShr(value, 8), size - 1)

\* directiveMatch(directive): the Directive, or the Error thrown.  The name of
\* a directive is kept without its dot.  A value is below
\* 2^(BigWidth - 1), and so never above a power of two that BigWidth cannot hold.
directiveMatch(directive) ==
   LET args == directive.args
       invalid == [thrown |-> "Error", message |-> "Invalid argument"]
   IN  CASE directive.directive \in DOMAIN sizedData ->
              IF Len(args) = 1 /\ args[1].type = "num"
              THEN LET size == sizedData[directive.directive]
                       value == bigOf(args[1].number)
                   IN  IF 8 * size < BigWidth - 1 /\ bigLess(bigShl(big(1), 8 * size), value)
                       THEN [thrown |-> "Error", message |-> "Value can't fit"]
                       ELSE [thrown |-> "none", data |-> dataBytes(value, size),
                             align |-> size]
              ELSE invalid
         [] directive.directive = "string" ->
              IF Len(args) = 1 /\ args[1].type = "any"
              THEN [thrown |-> "none",
                    data |-> seq([k \in 1..(Len(args[1].chars) - 1) |->
                                     IF k = Len(args[1].chars) - 1 THEN big(0)
                                     ELSE big(args[1].chars[k + 1])]),
                    align |-> 4]
              ELSE invalid
         [] directive.directive = "align" ->
              IF Len(args) = 1 /\ args[1].type = "num"
              THEN [thrown |-> "none", align |-> args[1].number]
              ELSE invalid
         [] OTHER -> [thrown |-> "Error", message |-> "Unknown directive"]

\* instrRules, but for conv
instrRules ==
   << [instructions |-> {"add", "sub", "and", "or", "xor", "sll", "sra", "srl", "slt", "sltu"},
       format |-> "basic", signature |-> << "id", "id", "id" >>],
      [instructions |-> {"addi", "andi", "ori", "xori", "slti", "sltiu"},
       format |-> "basic", signature |-> << "id", "id", "any" >>],
      [instructions |-> {"slli", "srai", "srli"},
       format |-> "basic", signature |-> << "id", "id", "num" >>],
      [instructions |-> {"beq", "bge", "bgeu", "blt", "bltu", "bne"},
       format |-> "basic", signature |-> << "id", "id", "id" >>],
      [instructions |-> {"jal"}, format |-> "basic", signature |-> << "id", "any" >>],
      [instructions |-> {"jal"}, format |-> "basic", signature |-> << "any" >>],
      [instructions |-> {"j"}, format |-> "basic", signature |-> << "id" >>],
      [instructions |-> {"lui", "auipc"}, format |-> "basic", signature |-> << "id", "any" >>],
      [instructions |-> {"lb", "lbu", "lh", "lhu", "lw", "jalr"},
       format |-> "displacement", signature |-> << "id", "num", "id" >>],
      [instructions |-> {"sb", "sh", "sw"},
       format |-> "displacement", signature |-> << "id", "num", "id" >>],
      [instructions |-> {"mv"}, format |-> "basic", signature |-> << "id", "id" >>],
      [instructions |-> {"li"}, format |-> "basic", signature |-> << "id", "any" >>],
      [instructions |-> {"halt"}, format |-> "argless", signature |-> << >>],
      [instructions |-> {"nop"}, format |-> "argless", signature |-> << >>],
      [instructions |-> {"ret"}, format |-> "argless", signature |-> << >>] >>

\* instrRules[k].conv(op, args, line).  An imm keeps the argument's type, which
\* tells a label (a string) from a number.
conv(k, op, a, line) ==
   CASE k = 1 -> [type |-> "R", op |-> op, rd |-> a[1].value, rs1 |-> a[2].value,
                  rs2 |-> a[3].value, line |-> line]
     [] k = 2 -> [type |-> "I", op |-> op, rd |-> a[1].value, rs1 |-> a[2].value,
                  imm |-> a[3], line |-> line]
     [] k = 3 -> [type |-> "IS", op |-> op, rd |-> a[1].value, rs1 |-> a[2].value,
                  imm |-> a[3], line |-> line]
     [] k = 4 -> [type |-> "SB", op |-> op, rs1 |-> a[1].value, rs2 |-> a[2].value,
                  imm |-> a[3], line |-> line]
     [] k = 5 -> [type |-> "UJ", op |-> op, rd |-> a[1].value, imm |-> a[2], line |-> line]
     [] k = 6 -> [type |-> "UJ", op |-> op, rd |-> "ra", imm |-> a[1], line |-> line]
     [] k = 7 -> [type |-> "UJ", op |-> "jal", rd |-> "zero", imm |-> a[1], line |-> line]
     [] k = 8 -> [type |-> "U", op |-> op, rd |-> a[1].value, imm |-> a[2], line |-> line]
     [] k = 9 -> [type |-> "I", op |-> op, rd |-> a[1].value, rs1 |-> a[3].value,
                  imm |-> a[2], line |-> line]
     [] k = 10 -> [type |-> "S", op |-> op, rs1 |-> a[3].value, rs2 |-> a[1].value,
                   imm |-> a[2], line |-> line]
     [] k = 11 -> [type |-> "I", op |-> "addi", rd |-> a[1].value, rs1 |-> a[2].value,
                   imm |-> num(0), line |-> line]
     [] k = 12 -> [type |-> "I", op |-> "addi", rd |-> a[1].value, rs1 |-> "zero",
                   imm |-> a[2], line |-> line]
     [] k = 13 -> [type |-> "UJ", op |-> "jal", rd |-> "zero", imm |-> num(0), line |-> line]
     [] k = 14 -> [type |-> "I", op |-> "addi", rd |-> "zero", rs1 |-> "zero",
                   imm |-> num(0), line |-> line]
     [] OTHER -> [type |-> "I", op |-> "jalr", rd |-> "zero", rs1 |-> "ra",
                  imm |-> num(0), line |-> line]

\* ruleMatch(rule, instr), for an op in lower case
ruleMatch(rule, instr) ==
   /\ instr.op \in rule.instructions
   /\ instr.type = rule.format
   /\ Len(instr.args) = Len(rule.signature)
   /\ \A i \in 1..Len(instr.args) :
         rule.signature[i] = "any" \/ instr.args[i].type = rule.signature[i]

\* Bits.join(funct7, Bits(imm, 5, true), rs1, funct3, rd, opcode)
ISType(funct7, imm, rs1, funct3, rd, opcode) ==
   toInt(enc(opcode, 7) \o enc(rd, 5) \o enc(funct3, 3) \o enc(rs1, 5)
            \o enc(imm, 5) \o enc(funct7, 7), FALSE)

\* the width of the immediate field of each instruction type
immWidth == [I |-> 12, IS |-> 5, S |-> 12, SB |-> 13, U |-> 20, UJ |-> 21]

\* assembleInstr(instrNum, instr, labels): the word, or the Error thrown
assembleInstr(instrNum, instr, labels) ==
   LET isLabel == "imm" \in DOMAIN instr /\ instr.imm.type = "id"
       imm == IF isLabel THEN (labels[instr.imm.value] - instrNum) * 4
              ELSE IF "imm" \in DOMAIN instr THEN instr.imm.number ELSE 0
       reg(field) == constants_registers[instr[field]]
       o == constants_opcodes[instr.op]
   IN  IF isLabel /\ instr.imm.value \notin DOMAIN labels
       THEN [thrown |-> "Error", message |-> "Unknown label"]
       ELSE IF \E field \in {"rd", "rs1", "rs2"} \cap DOMAIN instr :
                  instr[field] \notin DOMAIN constants_registers
       THEN [thrown |-> "Error", message |-> "Unknown register"]
       ELSE IF instr.type # "R" /\ ~BitsInRange(bigOf(imm), immWidth[instr.type], TRUE)
       THEN [thrown |-> "Error", message |-> "Bits out of range"]
       ELSE [thrown |-> "none",
             word |->
                CASE instr.type = "R" ->
                       RType(o[3], reg("rs2"), reg("rs1"), o[2], reg("rd"), o[1])
                  [] instr.type = "I" -> IType(imm, reg("rs1"), o[2], reg("rd"), o[1])
                  [] instr.type = "IS" ->
                       ISType(o[3], imm, reg("rs1"), o[2], reg("rd"), o[1])
                  [] instr.type = "S" -> SType(imm, reg("rs2"), reg("rs1"), o[2], o[1])
                  [] instr.type = "SB" -> SBType(imm, reg("rs2"), reg("rs1"), o[2], o[1])
                  [] instr.type = "U" -> UType(imm, reg("rd"), o[1])
                  [] OTHER -> UJType(imm, reg("rd"), o[1])]

\* parse(program): the statements, or the error thrown.  The parser's own
\* outcome on the text is given: whether feed threw and at which token, and
\* the results it holds.
parse(program) ==
   IF program.feed = "throws"
   THEN [thrown |-> "AssemblerError", message |-> "Syntax error",
         line |-> program.token.line, col |-> program.token.col]
   ELSE IF Len(program.results) < 1
   THEN [thrown |-> "AssemblerError", message |-> "Unexpected end of program",
         line |-> Len(program.lines), col |-> program.lines[Len(program.lines)]]
   ELSE IF Len(program.results) > 1
   THEN [thrown |-> "Error", message |-> "Code is ambiguous."]
   ELSE [thrown |-> "none", parsed |-> program.results[1]]

\* pass 1 of assembleKeepLineInfo from statement k on: the labels, the
\* instructions and the directives, or the error thrown
RECURSIVE pass1(_, _, _, _, _)
pass1(parsed, k, labels, instructions, directives) ==
   IF k > Len(parsed)
   THEN [thrown |-> "none", labels |-> labels, instructions |-> instructions,
         directives |-> directives]
   ELSE LET instr == parsed[k]
        IN  CASE instr.type = "label" ->
                   pass1(parsed, k + 1, (instr.label :> Len(instructions)) @@ labels,
                         instructions, directives)
              [] instr.type = "directive" ->
                   LET directive == directiveMatch(instr)
                   IN  IF directive.thrown # "none" THEN directive
                       ELSE pass1(parsed, k + 1, labels, instructions,
                                  Append(directives, << directive, instr.line >>))
              [] OTHER ->
                   LET matching == { r \in 1..Len(instrRules) : ruleMatch(instrRules[r], instr) }
                   IN  IF matching # {}
                       THEN LET r == CHOOSE r \in matching : \A q \in matching : r <= q
                            IN  pass1(parsed, k + 1, labels,
                                      Append(instructions, conv(r, instr.op, instr.args, instr.line)),
                                      directives)
                       ELSE [thrown |-> "AssemblerError",
                             message |-> "Unknown instruction or incorrect args",
                             line |-> instr.line]

\* the loop over the bytes of a data directive, from byte k on
RECURSIVE pushData(_, _, _, _, _)
pushData(bytes, k, offset, machineCode, dataMem) ==
   IF k > Len(bytes)
   THEN [offset |-> offset, machineCode |-> machineCode, dataMem |-> dataMem]
   ELSE LET code1 == IF offset = 0 THEN Append(machineCode, big(0)) ELSE machineCode
            data1 == IF offset = 0 THEN Append(dataMem, << Len(code1) - 1, big(0) >>)
                     ELSE dataMem
            shifted == bigShl(bytes[k], offset * 8)
        IN  pushData(bytes, k + 1, (offset + 1) % 4,
                     [code1 EXCEPT ![Len(code1)] = bigOr(@, shifted)],
                     [data1 EXCEPT ![Len(data1)] = << @[1], bigOr(@[2], shifted) >>])

\* pass 2 of assembleKeepLineInfo, for alignments above 0: the Program, or the
\* error thrown.  i and d count from 0.
RECURSIVE pass2(_, _, _, _, _, _, _, _, _, _)
pass2(instructions, directives, labels, i, d, offset, align, machineCode, instrMem, dataMem) ==
   IF ~(i < Len(instructions) \/ d < Len(directives))
   THEN [thrown |-> "none", instructions |-> instrMem, data |-> dataMem,
         machineCode |-> machineCode]
   ELSE IF \/ d >= Len(directives)
           \/ i < Len(instructions) /\ instructions[i + 1].line < directives[d + 1][2]
   THEN LET instr == instructions[i + 1]
            machineCodeInstr == assembleInstr(Len(machineCode), instr, labels)
        IN  IF machineCodeInstr.thrown # "none"
            THEN [thrown |-> "AssemblerError", message |-> machineCodeInstr.message,
                  line |-> instr.line]
            ELSE pass2(instructions, directives, labels, i + 1, d, offset, align,
                       Append(machineCode, machineCodeInstr.word),
                       Append(instrMem, << instr.line, machineCodeInstr.word >>), dataMem)
   ELSE LET directive == directives[d + 1][1]
            a == IF align # 0 THEN align ELSE directive.align
        IN  IF "data" \in DOMAIN directive
            THEN LET start == (offset + ((a - (offset % a)) % a)) % 4
                     pushed == pushData(directive.data, 1, start, machineCode, dataMem)
                 IN  pass2(instructions, directives, labels, i, d + 1, pushed.offset,
                           align, pushed.machineCode, instrMem, pushed.dataMem)
            ELSE pass2(instructions, directives, labels, i, d + 1, offset,
                       directive.align, machineCode, instrMem, dataMem)

\* assembleKeepLineInfo(program): the Program, or the error thrown
assembleKeepLineInfo(program) ==
   LET p == parse(program)
   IN  IF p.thrown # "none" THEN p
       ELSE LET first == pass1(p.parsed, 1, << >>, << >>, << >>)
            IN  IF first.thrown # "none" THEN first
                ELSE pass2(first.instructions, first.directives, first.labels,
                           0, 0, 0, 0, << >>, << >>, << >>)

\* the statements the grammar's postprocessors build
AsmLabel(l) == [type |-> "label", label |-> l]

AsmDirective(name, line, args) ==
   [type |-> "directive", directive |-> name, line |-> line, args |-> args]

AsmInstr(type, op, line, args) == [type |-> type, line |-> line, op |-> op, args |-> args]

\* the outcome of the parser on a text of one statement a line that it accepts
Parsed(statements) ==
   [feed |-> "ok", results |-> << statements >>,
    lines |-> seq([k \in 1..Len(statements) |-> 16])]

\* the statements programs are made of: a label, two data directives, an
\* instruction without a label and a branch and a jump to the label
StatementKinds == {"L:", ".word 5", ".byte 1", "addi x5, x5, 1", "beq x5, x6, L", "jal L"}

Statement(kind, line) ==
   CASE kind = "L:" -> AsmLabel("L")
     [] kind = ".word 5" -> AsmDirective("word", line, << num(5) >>)
     [] kind = ".byte 1" -> AsmDirective("byte", line, << num(1) >>)
     [] kind = "addi x5, x5, 1" ->
          AsmInstr("basic", "addi", line, << id("x5"), id("x5"), num(1) >>)
     [] kind = "beq x5, x6, L" ->
          AsmInstr("basic", "beq", line, << id("x5"), id("x6"), id("L") >>)
     [] OTHER -> AsmInstr("basic", "jal", line, << id("L") >>)

MaxStatements == 4

\* every text of one to MaxStatements of these statements, one a line
LabelPrograms ==
   { Parsed(seq([k \in DOMAIN kinds |-> Statement(kinds[k], k)])) :
        kinds \in UNION { [1..n -> StatementKinds] : n \in 1..MaxStatements } }

\* one line texts over the instruction rules and the directives
RulePrograms ==
   { Parsed(<< s >>) : s \in
      { AsmInstr("basic", "add", 1, << id("x5"), id("x6"), id("x7") >>),
        AsmInstr("basic", "sub", 1, << id("x5"), id("x6"), id("x7") >>),
        AsmInstr("basic", "xori", 1, << id("x5"), id("x6"), num(-1) >>),
        AsmInstr("basic", "slli", 1, << id("x5"), id("x6"), num(15) >>),
        AsmInstr("basic", "srai", 1, << id("x5"), id("x6"), num(3) >>),
        AsmInstr("basic", "jal", 1, << id("x1"), num(8) >>),
        AsmInstr("basic", "lui", 1, << id("x5"), num(74565) >>),
        AsmInstr("basic", "auipc", 1, << id("x5"), num(1) >>),
        AsmInstr("displacement", "lw", 1, << id("x5"), num(4), id("sp") >>),
        AsmInstr("displacement", "jalr", 1, << id("x1"), num(0), id("x5") >>),
        AsmInstr("displacement", "sw", 1, << id("x5"), num(-4), id("sp") >>),
        AsmInstr("basic", "mv", 1, << id("x5"), id("x6") >>),
        AsmInstr("basic", "li", 1, << id("x5"), num(2047) >>),
        AsmInstr("argless", "halt", 1, << >>),
        AsmInstr("argless", "nop", 1, << >>),
        AsmInstr("argless", "ret", 1, << >>),
        AsmDirective("half", 1, << num(4660) >>),
        AsmDirective("dword", 1, << num(74565) >>),
        AsmDirective("byte", 1, << num(256) >>),
        AsmDirective("string", 1, << anything(<< 34, 104, 105, 34 >>) >>),
        AsmDirective("align", 1, << num(4) >>) } }

\* texts the assembler rejects: a syntax error, a text that ends early, an
\* unknown instruction, wrong arguments, an unknown label, an unknown
\* register, immediates out of range, an unknown directive, a directive
\* without its argument and with a value too large
ErrorPrograms ==
   { [feed |-> "throws", token |-> [line |-> 2, col |-> 7], results |-> << >>,
      lines |-> << 16, 9 >>],
     [feed |-> "ok", results |-> << >>, lines |-> << 16, 5 >>] }
   \cup { Parsed(<< AsmInstr("basic", "addi", 1, << id("x5"), id("x5"), num(1) >>), s >>) :
             s \in
      { AsmInstr("basic", "foo", 2, << id("x5") >>),
        AsmInstr("basic", "addi", 2, << id("x5"), id("x5") >>),
        AsmInstr("basic", "beq", 2, << id("x5"), id("x6"), num(8) >>),
        AsmInstr("basic", "j", 2, << id("nowhere") >>),
        AsmInstr("basic", "addi", 2, << id("x99"), id("x5"), num(1) >>),
        AsmInstr("basic", "addi", 2, << id("x5"), id("x5"), num(2048) >>),
        AsmInstr("basic", "slli", 2, << id("x5"), id("x5"), num(16) >>),
        AsmDirective("foo", 2, << num(1) >>),
        AsmDirective("word", 2, << >>),
        AsmDirective("byte", 2, << num(300) >>) } }

\* the immediate shifts by every amount from 0 to 31
ShiftPrograms ==
   { Parsed(<< AsmInstr("basic", op, 1, << id("x5"), id("x6"), num(n) >>) >>) :
        op \in {"slli", "srli", "srai"}, n \in 0..31 }

\* the values given to each sized data directive: small ones, the largest
\* that fits, the power of two above it and the value after that
dataValues ==
   [byte |-> {0, 1, 255, 256, 257}, half |-> {0, 4660, 65535, 65536, 65537},
    word |-> {0, 5, 74565, 8388607}, dword |-> {0, 74565, 8388607}]

DataPrograms ==
   { Parsed(<< AsmDirective(name, 1, << num(v) >>) >>) :
        name \in DOMAIN sizedData, v \in UNION { dataValues[n] : n \in DOMAIN sizedData } }

AsmPrograms ==
   LabelPrograms \cup RulePrograms \cup ErrorPrograms \cup ShiftPrograms \cup DataPrograms

InitAssembler ==
   /\ \E p \in AsmPrograms : assembly = [NoAssembly EXCEPT !.program = p]
   /\ ui = VisualSim
   /\ lookup = NoLookup
   /\ code = << >>
   /\ componentList = pushOrder
   /\ wires = Wires
   /\ state = FETCH
   /\ instruction = Bits(big(19), 32, FALSE)
   /\ data = << >>
   /\ readOutput = << >>
   /\ val = Bits(big(0), 32, FALSE)
   /\ output = Bits(big(0), 32, TRUE)
   /\ registers = [r \in 0..31 |-> Bits(big(0), 32, FALSE)]
   /\ out1 = Bits(big(0), 32, FALSE)
   /\ out2 = Bits(big(0), 32, FALSE)
   /\ called = "none"
   /\ returned = "void"

\* assembleKeepLineInfo(program)
Assemble ==
   /\ ~assembly.done
   /\ \E r \in {assembleKeepLineInfo(assembly.program)} :
         /\ assembly' = [assembly EXCEPT !.done = TRUE, !.result = r]
         /\ returned' = IF r.thrown = "none" THEN "Program" ELSE r.thrown
   /\ called' = "assembleKeepLineInfo"
   /\ UNCHANGED << code, wires, state, instruction, data, readOutput, val, output,
                   registers, out1, out2, componentList, lookup, ui >>

SpecAssembler == InitAssembler /\ [][Assemble]_vars

\* ------------------------------------------------------------------------
\* The instruction set, for stating what the simulator should compute
\* ------------------------------------------------------------------------

\* the fields of an instruction word, as numbers
opcodeOf(i) == toNumber(slice(i, 0, 7))

rdOf(i) == toNumber(slice(i, 7, 12))

funct3Of(i) == toNumber(slice(i, 12, 15))

rs1Of(i) == toNumber(slice(i, 15, 20))

rs2Of(i) == toNumber(slice(i, 20, 25))

\* the opcodes
OpLOAD == 3
OpOPIMM == 19
OpAUIPC == 23
OpSTORE == 35
OpOP == 51
OpLUI == 55
OpBRANCH == 99
OpJALR == 103
OpJAL == 111

\* the low 32 bits of a bigint: its value mod 2^32
mod32(n) == SubSeq(n, 1, 32)

\* a < b for 32 bit words read as unsigned: they differ, and where they differ
\* first from the top, a has the 0
lessUnsigned(a, b) ==
   \E i \in 1..32 : a[i] = 0 /\ b[i] = 1 /\ SubSeq(a, i + 1, 32) = SubSeq(b, i + 1, 32)

\* a < b for 32 bit words read as two's complement
lessSigned(a, b) == IF a[32] # b[32] THEN a[32] = 1 ELSE lessUnsigned(a, b)

\* the condition of the branch with this funct3 on operands a, b
branchTaken(funct3, a, b) ==
   CASE funct3 = 0 -> a = b
     [] funct3 = 1 -> a # b
     [] funct3 = 4 -> lessSigned(a, b)
     [] funct3 = 5 -> ~lessSigned(a, b)
     [] funct3 = 6 -> lessUnsigned(a, b)
     [] funct3 = 7 -> ~lessUnsigned(a, b)
     [] OTHER -> FALSE

\* the immediates of the I, SB, U and UJ formats, sign extended to a bigint
immI(i) == toInt(slice(i, 20, 32), TRUE)

immSB(i) ==
   toInt(<< 0 >> \o slice(i, 8, 12) \o slice(i, 25, 31) \o << i[8] >> \o << i[32] >>, TRUE)

immU(i) == toInt(SubSeq(Zeros, 1, 12) \o slice(i, 12, 32), TRUE)

immUJ(i) ==
   toInt(<< 0 >> \o slice(i, 21, 31) \o << i[21] >> \o slice(i, 12, 20) \o << i[32] >>, TRUE)

\* the PC after the instruction i at address pc, on the register file regs
nextPC(i, pc, regs) ==
   LET A == toInt(pc, FALSE)
   IN  CASE opcodeOf(i) = OpJAL -> mod32(bigAdd(A, immUJ(i)))
         [] opcodeOf(i) = OpJALR -> mod32(bigAdd(toInt(regs[rs1Of(i)], FALSE), immI(i)))
         [] opcodeOf(i) = OpBRANCH /\ branchTaken(funct3Of(i), regs[rs1Of(i)], regs[rs2Of(i)]) ->
               mod32(bigAdd(A, immSB(i)))
         [] OTHER -> mod32(bigAdd(A, big(4)))

\* a 32 bit word shifted, as the instruction set defines the shifts
shiftLeft(a, sh) == SubSeq(Zeros, 1, sh) \o SubSeq(a, 1, 32 - sh)

shiftRight(a, sh, fill) ==
   SubSeq(a, sh + 1, 32) \o SubSeq(IF fill = 1 THEN Ones ELSE Zeros, 1, sh)

\* op(a, b) mod 2^32 for the operation funct3 and alt select, on 32 bit words
aluResult(alt, funct3, a, b) ==
   LET sh == toNumber(SubSeq(b, 1, 5))
   IN  CASE funct3 = 0 /\ alt = 0 -> mod32(bigAdd(toInt(a, FALSE), toInt(b, FALSE)))
         [] funct3 = 0 /\ alt = 1 -> mod32(bigSub(toInt(a, FALSE), toInt(b, FALSE)))
         [] funct3 = 1 -> shiftLeft(a, sh)
         [] funct3 = 2 -> mod32(IF lessSigned(a, b) THEN big(1) ELSE big(0))
         [] funct3 = 3 -> mod32(IF lessUnsigned(a, b) THEN big(1) ELSE big(0))
         [] funct3 = 4 -> seq([k \in 1..32 |-> IF a[k] # b[k] THEN 1 ELSE 0])
         [] funct3 = 5 /\ alt = 0 -> shiftRight(a, sh, 0)
         [] funct3 = 5 /\ alt = 1 -> shiftRight(a, sh, a[32])
         [] funct3 = 6 -> seq([k \in 1..32 |-> IF a[k] = 1 \/ b[k] = 1 THEN 1 ELSE 0])
         [] funct3 = 7 -> seq([k \in 1..32 |-> IF a[k] = 1 /\ b[k] = 1 THEN 1 ELSE 0])

\* what the load with this funct3 reads at addr: 1, 2 or 4 bytes, sign extended
\* by LB and LH, zero extended by LBU and LHU
loadResult(funct3, mem, addr) ==
   LET size == 2 ^ (funct3 % 4)
       bytes == Bits(load(mem, addr, size), 8 * size, FALSE)
   IN  extended(bytes, 32, funct3 < 4)

\* the address a load or store at instruction i uses
effectiveAddress(i, regs) ==
   toInt(mod32(bigAdd(toInt(regs[rs1Of(i)], FALSE), immI(i))), FALSE)

\* the opcodes that write rd
WritingOpcodes == {OpOP, OpOPIMM, OpAUIPC, OpLUI, OpLOAD, OpJAL, OpJALR}

\* what instruction i at address pc writes to rd, given the ALU result and
\* the loaded value on the wires w
writebackValue(i, pc, w) ==
   CASE opcodeOf(i) \in {OpOP, OpOPIMM} -> w.aluOut
     [] opcodeOf(i) = OpAUIPC -> mod32(bigAdd(toInt(pc, FALSE), immU(i)))
     [] opcodeOf(i) = OpLUI -> mod32(immU(i))
     [] opcodeOf(i) = OpLOAD -> w.memReadData
     [] OTHER -> mod32(bigAdd(toInt(pc, FALSE), big(4)))

\* ------------------------------------------------------------------------
\* Properties
\* ------------------------------------------------------------------------

\* a tick has just completed and left the FSM in state st
Completed(st) == called = "tick" /\ returned = "true" /\ state = st

\* C1: register 0 is zero in every reachable state, whatever the program and
\* whatever setRegisters and tick calls were made, including after instructions
\* that name x0 as rd with regWrite asserted.
C1_RegisterZeroIsZero == registers[0] = Bits(big(0), 32, FALSE)

\* C1's case: a WRITEBACK tick has completed with regWrite asserted, x0 as the
\* destination and a nonzero value on writeData.
C1_Witness_WriteToZeroDiscarded ==
   /\ Completed(FETCH)
   /\ wires.regWrite = 1
   /\ Len(wires.writeReg) = 5 /\ toNumber(wires.writeReg) = 0
   /\ Len(wires.writeData) = 32 /\ ~allZero(wires.writeData)

\* C2: the FSM state is always one of the five, and every tick that returns
\* true moves it one step along FETCH, DECODE, EXECUTE, MEMORY, WRITEBACK, FETCH.
C2_FSMAdvancesOneStep ==
   /\ [](state \in {FETCH, DECODE, EXECUTE, MEMORY, WRITEBACK})
   /\ [][called' = "tick" /\ returned' = "true" =>
           \/ state = FETCH /\ state' = DECODE
           \/ state = DECODE /\ state' = EXECUTE
           \/ state = EXECUTE /\ state' = MEMORY
           \/ state = MEMORY /\ state' = WRITEBACK
           \/ state = WRITEBACK /\ state' = FETCH]_vars

\* C2's case: the second instruction has been fetched, so the FSM has gone
\* once round and wrapped from WRITEBACK to FETCH.
C2_Witness_WrappedToFetch ==
   Completed(DECODE) /\ val # Bits(big(textStart), 32, FALSE)

\* C3: a tick returns false exactly when the instruction latch, after this
\* tick's load if it loads, is the all-zero word; that happens only in a DECODE
\* tick, which loads the latch; every other tick returns true or raises an error.
C3_FalseIffZeroLatched ==
   [][called' = "tick" =>
        /\ (returned' = "false") <=> allZero(instruction')
        /\ returned' = "false" => state = DECODE /\ state' = DECODE
                                     /\ instruction' = wires.memReadData
        /\ returned' \in {"true", "false", "Error"}]_vars

\* C3's case: the DECODE tick after some completed instruction latched zero and
\* returned false.
C3_Witness_EndOfProgram ==
   /\ called = "tick" /\ returned = "false" /\ state = DECODE
   /\ allZero(instruction) /\ Len(instruction) = 32
   /\ val # Bits(big(textStart), 32, FALSE)

\* C4: the PC after an instruction's WRITEBACK tick is base + signExt(imm) mod
\* 2^32 for JAL, JALR and a branch whose condition holds (base the
\* instruction's address, x[rs1] for JALR), and the address + 4 otherwise.
C4_PCAfterWriteback ==
   [][state = WRITEBACK /\ called' = "tick" /\ returned' = "true" =>
         val' = nextPC(instruction, val, registers)]_vars

\* C5: after the WRITEBACK tick of a branch on a = x[rs1], b = x[rs2], JumpControl
\* has set pcSrc to JumpControl iff the branch's condition holds: BEQ a = b,
\* BNE a # b, BLT a < b signed, BGE a >= b signed, BLTU a < b unsigned, BGEU
\* a >= b unsigned.
C5_BranchTakenIffCondition ==
   Completed(FETCH) /\ opcodeOf(instruction) = OpBRANCH =>
      ((wires.pcSrc = PCSrc_JumpControl) <=>
          branchTaken(funct3Of(instruction), registers[rs1Of(instruction)],
                      registers[rs2Of(instruction)]))

\* C5's case: BLTU on a = 0xFFFFFFFF, b = 1 has gone through WRITEBACK and is
\* not taken.
C5_Witness_BLTUNotTaken ==
   /\ Completed(FETCH)
   /\ opcodeOf(instruction) = OpBRANCH /\ funct3Of(instruction) = 6
   /\ registers[rs1Of(instruction)] = mod32(AllOnes)
   /\ registers[rs2Of(instruction)] = mod32(big(1))
   /\ wires.pcSrc = PCSrc_PC4

\* C6: in the EXECUTE tick of every register-register operation the ALU
\* produces, without error, op(a, b) mod 2^32, and aluZero is 1 iff aluOut is 0.
C6_ALUComputesEveryOperation ==
   [][state = EXECUTE /\ opcodeOf(instruction) = OpOP /\ called' = "tick" =>
         /\ returned' = "true"
         /\ wires'.aluOut = aluResult(instruction[31], funct3Of(instruction),
                                      registers[rs1Of(instruction)],
                                      registers[rs2Of(instruction)])
         /\ (wires'.aluZero = 1) <=> allZero(wires'.aluOut)]_vars

\* C7: after the MEMORY tick of a load, memReadData is the addressed bytes sign
\* extended for LB and LH, zero extended for LBU and LHU, the whole word for LW.
C7_LoadExtendsByMemUnsigned ==
   Completed(WRITEBACK) /\ opcodeOf(instruction) = OpLOAD
         /\ funct3Of(instruction) \in {0, 1, 2, 4, 5} =>
      wires.memReadData =
         loadResult(funct3Of(instruction), data, effectiveAddress(instruction, registers))

\* C8: after the EXECUTE tick of a register-immediate operation aluAlt is 0,
\* except for the shifts, where it is instruction bit 30; so SRAI shifts
\* arithmetically and SRLI logically.
C8_ImmediateShiftsTakeAluAltFromBit30 ==
   Completed(MEMORY) /\ opcodeOf(instruction) = OpOPIMM =>
      LET alt == IF funct3Of(instruction) \in {1, 5} THEN instruction[31] ELSE 0
      IN  /\ wires.aluAlt = alt
          /\ wires.aluOut = aluResult(alt, funct3Of(instruction),
                                      registers[rs1Of(instruction)],
                                      mod32(immI(instruction)))

\* C9: in the WRITEBACK tick of an instruction with rd # 0, x[rd] receives the
\* ALU result (R-type, I-arith), its address + (imm20 << 12) (AUIPC),
\* imm20 << 12 (LUI), the loaded value (loads), its address + 4 (JAL, JALR).
C9_WritebackValue ==
   [][state = WRITEBACK /\ called' = "tick" /\ rdOf(instruction) # 0
         /\ opcodeOf(instruction) \in WritingOpcodes =>
         registers'[rdOf(instruction)] = writebackValue(instruction, val, wires)]_vars

\* C10: jal x1, 8 at address A leaves x1 = A + 4 and PC = A + 8; the
\* jalr x0, 0(x1) that follows leaves PC = A + 4 and x0 = 0.
C10_CallAndReturn ==
   [][code = CallReturn /\ state = WRITEBACK /\ called' = "tick" =>
         /\ opcodeOf(instruction) = OpJAL =>
               /\ val = mod32(big(textStart))
               /\ registers'[1] = mod32(big(textStart + 4))
               /\ val' = mod32(big(textStart + 8))
         /\ opcodeOf(instruction) = OpJALR =>
               /\ val' = mod32(big(textStart + 4))
               /\ registers'[0] = mod32(big(0))]_vars

\* the immediate of the S format, sign extended to a bigint
immS(i) == toInt(slice(i, 7, 12) \o slice(i, 25, 32), TRUE)

\* the address a store at instruction i uses
storeAddress(i, regs) ==
   toInt(mod32(bigAdd(toInt(regs[rs1Of(i)], FALSE), immS(i))), FALSE)

\* the store, addi x6,x0,0x123 / sw x6,0(x0) / lw x7,0(x0)
StoreLoadExample == << ADDI(6, 0, 291), STORE(2, 6, 0, 0), LOAD(2, 7, 0, 0) >>

decodedImmediate(type, v) ==
   CASE type = "U" -> mod32(bigShl(bigOf(v), 12))
     [] type = "R" -> mod32(big(0))
     [] OTHER -> mod32(bigOf(v))

\* the DECODE tick of the first instruction has completed
Decoded == Completed(EXECUTE) /\ val = mod32(big(textStart))

C13_PCPublishedAndWraps ==
   /\ called = "tick" /\ returned = "true" =>
         /\ wires.pcVal = val
         /\ wires.pcVal4 = mod32(bigAdd(toInt(val, FALSE), big(4)))
   /\ called = "tick" /\ val = mod32(TopWord) => returned # "Error"

\* C13's case: the instruction at 0xFFFFFFFC is being executed and the next
\* sequential PC has wrapped to 0.
C13_Witness_WrappedToZero ==
   /\ Completed(MEMORY)
   /\ val = mod32(TopWord) /\ wires.pcVal = val
   /\ instruction = mod32(ADDI(6, 0, 1))
   /\ wires.pcVal4 = mod32(big(0))

\* the jump address of instruction i at address pc: the base, pc or x[rs1] for
\* JALR, plus the sign extended immediate, mod 2^32
jumpTarget(i, pc, regs) ==
   CASE opcodeOf(i) = OpJAL -> mod32(bigAdd(toInt(pc, FALSE), immUJ(i)))
     [] opcodeOf(i) = OpJALR -> mod32(bigAdd(toInt(regs[rs1Of(i)], FALSE), immI(i)))
     [] OTHER -> mod32(bigAdd(toInt(pc, FALSE), immSB(i)))

\* C14: in the WRITEBACK tick of every jump and branch JumpControl computes,
\* without error, jumpAddr = (base + signExt(immediate)) mod 2^32, also when
\* the sum is negative or at least 2^32.
C14_JumpAddrWraps ==
   [][state = WRITEBACK /\ called' = "tick"
         /\ opcodeOf(instruction) \in {OpJAL, OpJALR, OpBRANCH} =>
         /\ returned' = "true"
         /\ wires'.jumpAddr = jumpTarget(instruction, val, registers)]_vars

\* the opcodes the immediate table has a row for
DecodedOpcodes ==
   {OpOP, OpLOAD, OpOPIMM, OpJALR, OpSTORE, OpBRANCH, OpAUIPC, OpLUI, OpJAL}

\* C15: a DECODE tick that latches a non-zero word whose opcode no row of the
\* immediate table matches raises an error, returning neither true nor false,
\* and leaves the FSM in DECODE.
C15_UndefinedDecodeRaises ==
   [][state = DECODE /\ called' = "tick" /\ instruction' = wires.memReadData
         /\ ~allZero(instruction') /\ opcodeOf(instruction') \notin DecodedOpcodes =>
         returned' = "Error" /\ state' = DECODE]_vars

\* C15's case: the DECODE tick that latched ecall (opcode 1110011) raised an
\* error and the FSM is still in DECODE.
C15_Witness_EcallRaised ==
   /\ called = "tick" /\ returned = "Error" /\ state = DECODE
   /\ instruction = mod32(big(115))
   /\ opcodeOf(instruction) \notin DecodedOpcodes

\* C16: a tick that returns false or raises an error leaves the FSM state, the
\* instruction latch, the PC, the register file, the RAM and every signal as
\* they were before the call.
C16_TickIsAtomic ==
   [][called' = "tick" /\ returned' \in {"false", "Error"} =>
         UNCHANGED << wires, state, instruction, data, readOutput, val, output,
                      registers, out1, out2 >>]_vars

\* a register map with a negative value, or a non-zero value for register 0
Rejected(regs) ==
   \E r \in DOMAIN regs : regs[r][BigWidth] = 1 \/ (r = 0 /\ regs[r] # Zeros)

\* a register map of values in 0 .. 2^32 - 1
Unsigned32(regs) ==
   \A r \in DOMAIN regs : SubSeq(regs[r], 33, BigWidth) = SubSeq(Zeros, 33, BigWidth)

ProgramsWithoutRegs == { p.code : p \in { q \in Programs : q.regs = NoRegs } }

Then(F(_), m) == IF m.thrown # "none" THEN m ELSE F(m)

\* the twelve rising edges one after the other: the FSM, the five muxes, the
\* instruction memory, then RAM, PC, JumpControl, ALU, RegisterFile; each
\* works on the wires as the one before left them
risingInOrder(m) ==
   LET fsm == ControlFSM_rising_edge(m)
       mux1 == Then(WriteDataMux_rising_edge, fsm)
       mux2 == Then(ALUSrcMux1_rising_edge, mux1)
       mux3 == Then(ALUSrcMux2_rising_edge, mux2)
       mux4 == Then(PCSrcMux_rising_edge, mux3)
       mux5 == Then(MemAddrMux_rising_edge, mux4)
       im == Then(InstructionMemory_rising_edge, mux5)
       ramR == Then(RAM_rising_edge, im)
       pcR == Then(PC_rising_edge, ramR)
       jc == Then(JumpControl_rising_edge, pcR)
       aluR == Then(ALU_rising_edge, jc)
   IN  Then(RegisterFile_rising_edge, aluR)

\* the falling edges in the same order; the muxes, the instruction memory and
\* JumpControl have none
fallingInOrder(m) ==
   RegisterFile_falling_edge(
      ALU_falling_edge(PC_falling_edge(RAM_falling_edge(ControlFSM_falling_edge(m)))))

\* every rising edge, then every falling edge
tickInOrder(m) == Then(fallingInOrder, risingInOrder(m))

patternMatches(pattern, bits) ==
   /\ Len(bits) = Len(pattern)
   /\ \A i \in 1..Len(pattern) :
         \/ pattern[i] = "X"
         \/ pattern[i] = "1" /\ bits[Len(pattern) + 1 - i] = 1
         \/ pattern[i] = "0" /\ bits[Len(pattern) + 1 - i] = 0

\* every pattern of row k matches its input
rowMatches(rows, k, inputs) ==
   \A j \in 1..Len(rows[k][1]) : patternMatches(rows[k][1][j], inputs[j])

\* some input's width differs from the width of its patterns
widthDiffers(rows, inputs) ==
   \E j \in 1..Len(inputs) : Len(inputs[j]) # Len(rows[1][1][j])

\* C20: match raises an error when an input's width differs from its pattern's
\* width and when no row matches; otherwise it returns the value of the first
\* row, in insertion order, whose patterns (most significant bit first, X for
\* either value) all match, never that of a later matching row.
C20_FirstMatchingRow ==
   lookup.done =>
      LET matching == { k \in 1..Len(lookup.rows) : rowMatches(lookup.rows, k, lookup.inputs) }
      IN  /\ widthDiffers(lookup.rows, lookup.inputs) => lookup.throws
          /\ matching = {} => lookup.throws
          /\ ~widthDiffers(lookup.rows, lookup.inputs) /\ matching # {} =>
                /\ ~lookup.throws
                /\ \E k \in matching :
                      /\ \A other \in matching : k <= other
                      /\ lookup.value = lookup.rows[k][2]

\* C20's case: match(101, 0) has returned; the first and the second row both
\* match and the value is the first row's.
C20_Witness_FirstOfTwoRows ==
   /\ lookup.done /\ called = "match"
   /\ lookup.inputs = << << 1, 0, 1 >>, << 0 >> >>
   /\ rowMatches(lookup.rows, 1, lookup.inputs)
   /\ rowMatches(lookup.rows, 2, lookup.inputs)
   /\ returned = "first"

\* ------------------------------------------------------------------------
\* The assembler
\* ------------------------------------------------------------------------

\* the statements of the text that was assembled
statements == assembly.program.results[1]

\* statement k is an instruction
isInstr(k) == statements[k].type \notin {"label", "directive"}

\* the number of instructions before statement k
instrsBefore(k) == Cardinality({ j \in 1..(k - 1) : isInstr(j) })

\* the indexes in machineCode, from 0 and in order, of the words that are
\* instructions: those the data segment does not list
placed ==
   sortedKeys((0..(Len(assembly.result.machineCode) - 1))
                 \ { assembly.result.data[k][1] : k \in DOMAIN assembly.result.data })

\* the index in machineCode of the instruction that statement k is
indexOf(k) == placed[instrsBefore(k) + 1]

\* statement k is a branch or a jump to a label
refersToLabel(k) ==
   /\ isInstr(k)
   /\ statements[k].op \in {"beq", "bne", "blt", "bge", "bltu", "bgeu", "jal", "j"}
   /\ statements[k].args[Len(statements[k].args)].type = "id"

\* the statements that define the label statement k refers to
definitions(k) ==
   { j \in DOMAIN statements :
        /\ statements[j].type = "label"
        /\ statements[j].label = statements[k].args[Len(statements[k].args)].value }

\* the instructions after statement j
following(j) == { t \in DOMAIN statements : t > j /\ isInstr(t) }

\* the immediate encoded in the word at index n of machineCode, by the format
\* of statement k
encodedImmediate(k, n) ==
   LET w == Bits(assembly.result.machineCode[n + 1], 32, FALSE)
   IN  IF statements[k].op \in {"jal", "j"} THEN immUJ(w) ELSE immSB(w)

\* C21: in every Program the assembler returns, the immediate of a branch or
\* jump that refers to a label (defined once, before or after it, and followed
\* by an instruction) is 4 times the index in machineCode of the first
\* instruction after the label minus the index in machineCode of the branch or
\* jump itself, data words between the instructions included.
C21_LabelOffsetIsByteDistance ==
   assembly.done /\ assembly.result.thrown = "none" =>
      \A k \in { k \in DOMAIN statements : refersToLabel(k) } :
         \A j \in definitions(k) :
            definitions(k) = {j} /\ following(j) # {} =>
               LET t == CHOOSE t \in following(j) : \A u \in following(j) : t <= u
               IN  encodedImmediate(k, indexOf(k)) = bigOf(4 * (indexOf(t) - indexOf(k)))

\* C22: every failure of assembleKeepLineInfo is an AssemblerError that carries
\* the line and the column of the offending statement.
C22_ErrorsCarryLineAndColumn ==
   assembly.done /\ assembly.result.thrown # "none" =>
      /\ assembly.result.thrown = "AssemblerError"
      /\ {"line", "col"} \subseteq DOMAIN assembly.result

\* ------------------------------------------------------------------------
\* What each tick of the five may change
\* ------------------------------------------------------------------------

\* the 32 bit little-endian word that mem holds at the address pc
wordAt(mem, pc) == Bits(load(mem, toInt(pc, FALSE), 4), 32, FALSE)

\* C23: a tick that starts in a state other than DECODE leaves the instruction
\* latch as it was, whatever it returns; a FETCH tick that returns true has
\* read the word at PC into memReadData; after a DECODE tick that returns true
\* the latch is the little-endian word RAM holds at PC.
C23_LatchLoadsOnlyInDecode ==
   [][called' = "tick" =>
         /\ state # DECODE => instruction' = instruction
         /\ state = FETCH /\ returned' = "true" =>
               wires'.memReadData = wordAt(data, val)
         /\ state = DECODE /\ returned' = "true" => instruction' = wordAt(data', val')]_vars

\* C23's case: the DECODE tick of the first instruction has replaced the latch
\* of the constructor, addi x0, x0, 0, by another word, the one code holds.
C23_Witness_FirstWordLatched ==
   /\ Decoded
   /\ instruction = Bits(code[1], 32, FALSE)
   /\ instruction # Bits(big(19), 32, FALSE)
   /\ instruction = wordAt(data, val)

\* C24: a tick that starts in FETCH, DECODE, EXECUTE or MEMORY leaves PC.val as
\* it was, whatever it returns, and so does setRegisters: the PC changes only
\* in a WRITEBACK tick, the only one in which loadPC is 1 when PC sees it.
C24_PCLoadsOnlyInWriteback ==
   [][/\ called' = "tick" /\ state # WRITEBACK => val' = val /\ wires'.loadPC = 0
      /\ called' = "setRegisters" => val' = val]_vars

\* C24's case: the PC has been loaded once, by the WRITEBACK tick of the first
\* instruction, and has kept the second instruction's address through its
\* FETCH, DECODE, EXECUTE and MEMORY ticks.
C24_Witness_SecondInstructionInFlight ==
   /\ Completed(WRITEBACK)
   /\ val = mod32(big(textStart + 4))
   /\ wires.pcVal = val

\* C25: a tick that starts in FETCH, DECODE, EXECUTE or MEMORY changes no
\* register; a WRITEBACK tick changes no register other than rd of the latched
\* instruction, and none at all when the latched opcode is not one of R,
\* I-arithmetic, AUIPC, LUI, load, JAL, JALR (a branch, a store).
C25_RegistersChangeOnlyInWriteback ==
   [][called' = "tick" =>
         /\ state # WRITEBACK => registers' = registers
         /\ \A r \in 0..31 : r # rdOf(instruction) => registers'[r] = registers[r]
         /\ opcodeOf(instruction) \notin WritingOpcodes => registers' = registers]_vars

\* C25's case: the WRITEBACK tick of the first instruction has changed rd, and
\* the register file is otherwise as the constructor left it without a
\* register map.
C25_Witness_OnlyRdWritten ==
   /\ Completed(FETCH)
   /\ val = mod32(big(textStart + 4))
   /\ rdOf(instruction) \notin {0, 2, 3}
   /\ \A r \in 0..31 :
         (registers[r] = constructedRegisters(NoRegs).registers[r]) <=> r # rdOf(instruction)

\* the keys of the bytes addr .. addr+size-1
keysOf(addr, size) == { memKey(byteAddrs(addr, size)[k]) : k \in 1..size }

\* the latch holds a store of a byte, a half word or a word, in its MEMORY tick
storing == state = MEMORY /\ opcodeOf(instruction) = OpSTORE /\ funct3Of(instruction) \in {0, 1, 2}

\* C26: every tick other than the MEMORY tick of a store with funct3 000, 001
\* or 010 leaves the RAM as it was; such a tick, when it returns true, has
\* written the low 1, 2 or 4 bytes of x[rs2] at (x[rs1] + imm) mod 2^32 and
\* left every other byte as it was.
C26_RAMChangesOnlyInStores ==
   [][called' = "tick" =>
         /\ ~storing => data' = data
         /\ storing /\ returned' = "true" =>
               LET size == 2 ^ funct3Of(instruction)
                   addr == storeAddress(instruction, registers)
               IN  /\ load(data', addr, size)
                         = toInt(SubSeq(registers[rs2Of(instruction)], 1, 8 * size), FALSE)
                   /\ \A key \in (DOMAIN data \cup DOMAIN data') \ keysOf(addr, size) :
                         byteAt(data', key) = byteAt(data, key)]_vars

\* C26's case: sh of x6 = 0xFFFFFFFF at 0x20008 has gone through its MEMORY tick:
\* the two bytes there are 0xFFFF, the two bytes after them are still zero and
\* the program is as it was loaded.
C26_Witness_HalfWordStored ==
   /\ Completed(WRITEBACK)
   /\ opcodeOf(instruction) = OpSTORE /\ funct3Of(instruction) = 1
   /\ registers[rs2Of(instruction)] = mod32(AllOnes)
   /\ load(data, storeAddress(instruction, registers), 4) = big(65535)
   /\ wordAt(data, val) = instruction

\* the immediate the immediate table gives the instruction i, in 32 bits: by
\* opcode, the I, S, SB, U or UJ immediate, and zero for the R format
tableImmediate(i) ==
   LET o == opcodeOf(i)
   IN  CASE o \in {OpLOAD, OpOPIMM, OpJALR} -> mod32(immI(i))
         [] o = OpSTORE -> mod32(immS(i))
         [] o = OpBRANCH -> mod32(immSB(i))
         [] o \in {OpAUIPC, OpLUI} -> mod32(immU(i))
         [] o = OpJAL -> mod32(immUJ(i))
         [] OTHER -> mod32(big(0))

\* the decoded signals of w are those of the instruction i
decodes(w, i) ==
   /\ w.opcode = slice(i, 0, 7)
   /\ w.writeReg = slice(i, 7, 12)
   /\ w.funct3 = slice(i, 12, 15)
   /\ w.readReg1 = slice(i, 15, 20)
   /\ w.readReg2 = slice(i, 20, 25)
   /\ w.funct7 = slice(i, 25, 32)
   /\ w.immediate = tableImmediate(i)

\* C27: after every tick that returns true the decoded signals are those of the
\* instruction latch: the six fields are its bit ranges and the immediate is
\* the one its opcode's format gives; and a tick that returns true without
\* changing a latch already decoded leaves the fields and the immediate as
\* they were.
C27_DecodedFromLatchAlone ==
   [][called' = "tick" /\ returned' = "true" =>
         /\ decodes(wires', instruction')
         /\ instruction' = instruction /\ decodes(wires, instruction) =>
               /\ wires'.opcode = wires.opcode /\ wires'.writeReg = wires.writeReg
               /\ wires'.funct3 = wires.funct3 /\ wires'.readReg1 = wires.readReg1
               /\ wires'.readReg2 = wires.readReg2 /\ wires'.funct7 = wires.funct7
               /\ wires'.immediate = wires.immediate]_vars

\* C27's case: a branch with a negative immediate is in its WRITEBACK state,
\* decoded three times since it was latched, and the signals are still its
\* fields and its immediate.
C27_Witness_BranchDecodedAgain ==
   /\ Completed(WRITEBACK)
   /\ opcodeOf(instruction) = OpBRANCH
   /\ wires.immediate = tableImmediate(instruction)
   /\ wires.immediate[32] = 1
   /\ toNumber(wires.readReg1) = rs1Of(instruction)
   /\ toNumber(wires.readReg2) = rs2Of(instruction)
   /\ rs1Of(instruction) # rs2Of(instruction)

\* ------------------------------------------------------------------------
\* Termination
\* ------------------------------------------------------------------------

\* the address of word k of the program, counted from 0
addressOf(k) == mod32(big(textStart + 4 * k))

\* the program is straight-line code in place: every word of code is an
\* instruction of an opcode other than branch, JAL and JALR, the RAM holds the
\* words at textStart as they were loaded, and a zero word after them
straightLine ==
   /\ Len(code) > 0
   /\ \A k \in 1..Len(code) :
         /\ opcodeOf(mod32(code[k])) \in {OpOP, OpOPIMM, OpLOAD, OpSTORE, OpLUI, OpAUIPC}
         /\ wordAt(data, addressOf(k - 1)) = mod32(code[k])
   /\ wordAt(data, addressOf(Len(code))) = mod32(big(0))

\* C28: while the program is straight-line code of n instructions in place,
\* no tick raises an error, the PC is textStart + 4k for some k <= n and moves
\* by one instruction at a time, a tick returns true only up to the FETCH tick
\* at textStart + 4n (call 5n + 1) and false only in the DECODE tick there
\* (call 5n + 2): the calls before 5n + 2 return true and call 5n + 2 returns
\* false, which ends run().
C28_StraightLineTerminates ==
   /\ [](called = "tick" /\ straightLine =>
            /\ returned \in {"true", "false"}
            /\ \E k \in 0..Len(code) : val = addressOf(k)
            /\ returned = "true" =>
                  val # addressOf(Len(code)) \/ state \in {FETCH, DECODE}
            /\ returned = "false" => val = addressOf(Len(code)) /\ state = DECODE)
   /\ [][straightLine /\ val' # val =>
            \E k \in 1..Len(code) : val = addressOf(k - 1) /\ val' = addressOf(k)]_vars

\* C29: once a tick has returned false, with no call after it, a further tick
\* returns false as well and leaves the register file, the RAM, the PC and
\* the FSM state as they are; by induction so does every later tick.
C29_EndOfProgramIsAbsorbing ==
   called = "tick" /\ returned = "false" =>
      \A m \in {tick(Machine)} :
         /\ m.thrown = "EndOfProgram"
         /\ m.registers = registers
         /\ m.data = data
         /\ m.val = val
         /\ m.state = state

\* C29's case: the example program has run to its end, x7 = 0x123 was written
\* on the way, and the tick that comes next returns false again.
C29_Witness_FalseAgain ==
   /\ called = "tick" /\ returned = "false"
   /\ code = StoreLoadExample
   /\ state = DECODE
   /\ registers[7] = mod32(big(291))
   /\ tick(Machine).thrown = "EndOfProgram"

\* ------------------------------------------------------------------------
\* Register reads
\* ------------------------------------------------------------------------

\* C30: what an instruction uses of a register is what the register file
\* holds when the instruction runs, hence what the instruction before it
\* wrote there: in the EXECUTE tick the ALU operands taken from rs1 and rs2,
\* in the MEMORY tick the store data given to RAM, in the WRITEBACK tick of
\* JALR the base of the jump address; and no register changes between the
\* WRITEBACK tick of one instruction and that of the next.
C30_NoStaleRegisterReads ==
   [][called' = "tick" =>
         /\ state = EXECUTE /\ wires'.aluSrc1 = ALUSrc1_Reg1 =>
               wires'.aluIn1 = registers[rs1Of(instruction)]
         /\ state = EXECUTE /\ wires'.aluSrc2 = ALUSrc2_Reg2 =>
               wires'.aluIn2 = registers[rs2Of(instruction)]
         /\ state = MEMORY => wires.readData2 = registers[rs2Of(instruction)]
         /\ state = WRITEBACK /\ opcodeOf(instruction) = OpJALR /\ returned' = "true" =>
               wires'.jumpAddr
                  = mod32(bigAdd(toInt(registers[rs1Of(instruction)], FALSE), immI(instruction)))
         /\ state # WRITEBACK => registers' = registers]_vars

\* C30's case: addi x5, x0, 7 has written x5, which held 100, and the add
\* x6, x5, x5 after it has gone through its EXECUTE tick with both operands 7.
C30_Witness_OperandsFromPreviousWrite ==
   /\ Completed(MEMORY)
   /\ code = << ADDI(5, 0, 7), OP(0, 0, 6, 5, 5) >>
   /\ val = addressOf(1)
   /\ constructedRegisters(5 :> big(100)).registers[5] = mod32(big(100))
   /\ registers[5] = mod32(big(7))
   /\ wires.aluIn1 = mod32(big(7)) /\ wires.aluIn2 = mod32(big(7))

\* ------------------------------------------------------------------------
\* setCode on a simulator that holds a program
\* ------------------------------------------------------------------------

\* sim.setCode(c)
SetCode(c) ==
   /\ code' = c
   /\ data' = setCode(data, c)
   /\ called' = "setCode"
   /\ returned' = "void"
   /\ UNCHANGED << wires, state, instruction, readOutput, val, output,
                   registers, out1, out2, componentList, lookup, assembly, ui >>

\* the programs given to setCode: of no, one, two and three words
CodePrograms ==
   { << >>, << ADDI(5, 0, -1) >>, << LUI(28, 100000), ADDI(6, 0, 1) >>,
     << ADDI(5, 0, 1), ADDI(6, 5, 2), ADDI(7, 6, 3) >> }

InitSetCode == \E c \in CodePrograms : Constructed(c, NoRegs, pushOrder)

\* a simulator that is ticked and given programs in any order
SpecSetCode == InitSetCode /\ [][Tick \/ \E c \in CodePrograms : SetCode(c)]_vars

\* ------------------------------------------------------------------------
\* Assembled programs that end with halt, loaded and run
\* ------------------------------------------------------------------------

\* texts whose last statement is halt, one statement a line
HaltPrograms ==
   { Parsed(lines \o << AsmInstr("argless", "halt", Len(lines) + 1, << >>) >>) : lines \in
      { << >>,
        << AsmInstr("basic", "addi", 1, << id("x5"), id("x5"), num(1) >>) >>,
        << AsmInstr("argless", "nop", 1, << >>) >>,
        << AsmInstr("basic", "li", 1, << id("x5"), num(2047) >>),
           AsmInstr("basic", "mv", 2, << id("x6"), id("x5") >>) >>,
        << AsmInstr("basic", "lui", 1, << id("x5"), num(74565) >>) >>,
        << AsmInstr("basic", "add", 1, << id("x5"), id("x6"), id("x7") >>) >>,
        << AsmInstr("displacement", "sw", 1, << id("x5"), num(-4), id("sp") >>),
           AsmInstr("displacement", "lw", 2, << id("x6"), num(-4), id("sp") >>) >>,
        << AsmLabel("L"),
           AsmInstr("basic", "addi", 2, << id("x5"), id("x5"), num(1) >>),
           AsmInstr("basic", "beq", 3, << id("x5"), id("x6"), id("L") >>) >>,
        << AsmInstr("argless", "halt", 1, << >>) >> } }

\* new Simulator(assembleKeepLineInfo(text).machineCode)
InitHalt ==
   \E text \in HaltPrograms :
      Constructed(assembleKeepLineInfo(text).machineCode, NoRegs, pushOrder)

\* run() goes round its loop again after a tick that returned true: a round
\* that moves the FSM.  (A tick that returns false or throws leaves the FSM
\* state alone, and ends the loop.)
Turn == returned \in {"void", "true"} /\ state' \in {FETCH, DECODE, EXECUTE, MEMORY, WRITEBACK}

\* run() on it; the loop does not stop by itself while tick returns true
SpecHalt == InitHalt /\ [][Run]_vars /\ WF_state(Turn)

\* ------------------------------------------------------------------------
\* ui/Controls: VisualSim, its run state and its play timer
\* ------------------------------------------------------------------------

\* the VisualSim with its simulator, as its handlers see it
Visual == [sim |-> Machine, code |-> code, ui |-> ui]

\* new Simulator(), without code and registers
newSimulator ==
   [ wires |-> [Wires EXCEPT !.pcVal = Bits(big(textStart), 32, FALSE)],
     state |-> FETCH, instruction |-> Bits(big(19), 32, FALSE),
     data |-> setCode(<< >>, << >>), readOutput |-> << >>,
     val |-> Bits(big(textStart), 32, FALSE), output |-> Bits(big(0), 32, TRUE),
     registers |-> constructedRegisters(NoRegs).registers,
     out1 |-> Bits(big(0), 32, FALSE), out2 |-> Bits(big(0), 32, FALSE),
     thrown |-> "none" ]

\* a handler begins: no start() and no sim.tick() called by it yet
entered(v) == [v EXCEPT !.ui.started = "no", !.ui.ticked = "no"]

\* the words of the assembled pairs [line, instr]
instrsOf(assembled) == seq([k \in DOMAIN assembled |-> assembled[k][2]])

\* VisualSim.start(), on the contents of the editors: the code, whether the
\* data memory and the registers parse, and what they parse to
start(v, editors) ==
   CHOOSE r \in
      { IF assembled.thrown # "none" THEN [v EXCEPT !.ui.started = "failed"]
        ELSE IF Len(assembled.instructions) = 0 THEN [v EXCEPT !.ui.started = "failed"]
        ELSE IF ~editors.parses THEN [v EXCEPT !.ui.started = "failed"]
        ELSE [v EXCEPT
                !.code = instrsOf(assembled.instructions),
                !.sim.data = storeArray(setCode(@, instrsOf(assembled.instructions)),
                                        big(0), 4, editors.mem, 1),
                !.sim.registers = setRegisters(@, editors.regs).registers,
                !.ui.state = "running",
                !.ui.started = "ok"] :
        assembled \in {assembleKeepLineInfo(editors.code)} } : TRUE

\* the try block of step(): the state after sim.tick() gave t
ticked(v, t) ==
   [v EXCEPT !.sim = [t EXCEPT !.thrown = "none"],
             !.ui.ticked = CASE t.thrown = "none" -> "true"
                             [] t.thrown = "EndOfProgram" -> "false"
                             [] OTHER -> "Error",
             !.ui.state = IF t.thrown = "none" THEN "running" ELSE "done"]

\* a step() that calls sim.tick() whatever the state
stepWhateverState(v) == CHOOSE r \in { ticked(v, t) : t \in {tick(v.sim)} } : TRUE

\* step() from the test of the state on
stepRunning(v) ==
   IF v.ui.state = "running"
   THEN CHOOSE r \in { ticked(v, t) : t \in {tick(v.sim)} } : TRUE
   ELSE v

\* VisualSim.step(); it returns whether the state is "running"
step(v, editors) ==
   CHOOSE r \in
      { stepRunning(a) :
           a \in { IF v.ui.state = "unstarted" THEN start(v, editors) ELSE v } } : TRUE

\* VisualSim.pause(): clearInterval(this.playing)
pause(v) == [v EXCEPT !.ui.timers = @ \ {v.ui.playing}, !.ui.playing = 0]

\* the setInterval of updatePlaySpeed(): the window hands out a new handle
setInterval(v) ==
   [v EXCEPT !.ui.handles = @ + 1, !.ui.timers = @ \cup {v.ui.handles + 1},
             !.ui.playing = v.ui.handles + 1]

\* an updatePlaySpeed() that does not pause first
updatePlaySpeed_without_pause(v) == setInterval(v)

\* VisualSim.updatePlaySpeed()
updatePlaySpeed(v) ==
   CHOOSE r \in { setInterval(p) : p \in { IF v.ui.playing # 0 THEN pause(v) ELSE v } } : TRUE

\* play() after its step()
playStepped(v) == IF v.ui.state = "running" THEN updatePlaySpeed(v) ELSE v

\* the callback updatePlaySpeed() gives to setInterval, after its step()
callbackStepped(v) == IF v.ui.state # "running" THEN pause(v) ELSE v

\* restart() after the new simulator is in place
restarted(v) == IF v.ui.playing # 0 THEN pause(v) ELSE v

\* VisualSim.restart()
restart(v) ==
   CHOOSE r \in
      { restarted(n) :
           n \in { [v EXCEPT !.sim = newSimulator, !.code = << >>,
                             !.ui.state = "unstarted"] } } : TRUE

\* the handles the window hands out
MaxHandles == 3

\* what the editors hold when start() reads them: a text of one instruction,
\* a text whose only instruction makes the second tick throw (lui x5, 0x80000),
\* a text without instructions, a text with a syntax error; data memory and
\* registers that parse, or not
Editors ==
   { [code |-> text, parses |-> ok, mem |-> << >>, regs |-> (5 :> big(1))] :
        text \in { Parsed(<< AsmInstr("basic", "addi", 1, << id("x5"), id("x5"), num(1) >>) >>),
                   Parsed(<< AsmInstr("basic", "lui", 1, << id("x5"), num(-524288) >>) >>),
                   Parsed(<< AsmLabel("L") >>),
                   [feed |-> "throws", token |-> [line |-> 1, col |-> 3],
                    results |-> << >>, lines |-> << 9 >>] },
        ok \in BOOLEAN }

\* the handler name has run and left r
Handled(name, r, value) ==
   /\ code' = r.code
   /\ wires' = r.sim.wires
   /\ state' = r.sim.state
   /\ instruction' = r.sim.instruction
   /\ data' = r.sim.data
   /\ readOutput' = r.sim.readOutput
   /\ val' = r.sim.val
   /\ output' = r.sim.output
   /\ registers' = r.sim.registers
   /\ out1' = r.sim.out1
   /\ out2' = r.sim.out2
   /\ ui' = r.ui
   /\ called' = name
   /\ returned' = value
   /\ UNCHANGED << componentList, lookup, assembly >>

\* whether a step() that left r returns true
running(r) == IF r.ui.state = "running" THEN "true" ELSE "false"

\* VisualSim.step(), which left s
Step(s) == Handled("step", s, running(s))

\* VisualSim.play(), whose step() left s
Play(s) ==
   /\ ui.handles < MaxHandles
   /\ \E r \in {playStepped(s)} : Handled("play", r, "void")

\* an interval timer of the window fires; the step() of its callback left s
TimerFires(s) ==
   /\ ui.timers # {}
   /\ \E r \in {callbackStepped(s)} : Handled("callback", r, "void")

\* the handlers that begin with step(), on what the editors hold
Stepping ==
   \E e \in Editors : \E v \in {entered(Visual)} : \E s \in {step(v, e)} :
      Step(s) \/ Play(s) \/ TimerFires(s)

UpdatePlaySpeed ==
   /\ ui.handles < MaxHandles
   /\ \E v \in {entered(Visual)} : \E r \in {updatePlaySpeed(v)} :
         Handled("updatePlaySpeed", r, "void")

Pause == \E v \in {entered(Visual)} : \E r \in {pause(v)} : Handled("pause", r, "void")

Restart == \E v \in {entered(Visual)} : \E r \in {restart(v)} : Handled("restart", r, "void")

\* VisualSim.reset(example): restart(), then the editors are filled
Reset == \E v \in {entered(Visual)} : \E r \in {restart(v)} : Handled("reset", r, "void")

InitUI == Constructed(<< >>, NoRegs, pushOrder)

SpecUI ==
   InitUI /\ [][Stepping \/ UpdatePlaySpeed \/ Pause \/ Restart \/ Reset]_vars

\* ------------------------------------------------------------------------
\* Calls that fail, programs that are replaced
\* ------------------------------------------------------------------------

\* C31: a setRegisters call that raises an error leaves every register as it
\* was before the call, the registers at smaller keys than the offending
\* entry included.
C31_FailingSetRegistersChangesNothing ==
   [][called' = "setRegisters" /\ returned' = "Error" => registers' = registers]_vars

\* the word at the i-th place after textStart (i from 0)
wordOfProgram(i) == load(data, big(textStart + 4 * i), 4)

\* C32: after setCode(c), whatever was loaded before, the words from textStart
\* on are those of c and the word after the last of them is zero.
C32_SetCodeReplacesProgram ==
   called = "setCode" =>
      /\ \A i \in DOMAIN code : wordOfProgram(i - 1) = code[i]
      /\ wordOfProgram(Len(code)) = big(0)

\* the word halt assembles to: jal zero, 0
haltWord == mod32(JAL(0, 0))

shiftText(op, n) == Parsed(<< AsmInstr("basic", op, 1, << id("x5"), id("x6"), num(n) >>) >>)

\* C34: slli, srli and srai with a shift amount from 0 to 31 assemble without
\* error to a word whose bits 24..20 are the amount and whose bits 31..25 are
\* the funct7 of the instruction.
C34_ShiftImmediatesAssemble ==
   \A op \in {"slli", "srli", "srai"} : \A n \in 0..31 :
      assembly.done /\ assembly.program = shiftText(op, n) =>
         /\ assembly.result.thrown = "none"
         /\ slice(mod32(assembly.result.machineCode[1]), 20, 25) = enc(n, 5)
         /\ slice(mod32(assembly.result.machineCode[1]), 25, 32)
               = enc(constants_opcodes[op][3], 7)

\* the places in machineCode of the words created for data, and of the others
dataPlaces == { assembly.result.data[j][1] + 1 : j \in DOMAIN assembly.result.data }

instrPlaces == (DOMAIN assembly.result.machineCode) \ dataPlaces

\* the place in machineCode of the k-th instruction
instrPlace(k) == CHOOSE i \in instrPlaces : Cardinality({ j \in instrPlaces : j < i }) = k - 1

\* C35: in the Program of a text that mixes instructions and data directives,
\* the words that were not created for data are the instructions, in order,
\* and the word at the place of each instruction is the word paired with its
\* line in the instructions list: no data byte is OR-ed into it.
C35_DataNeverAltersInstructions ==
   assembly.done /\ assembly.result.thrown = "none" =>
      /\ Cardinality(instrPlaces) = Len(assembly.result.instructions)
      /\ \A k \in DOMAIN assembly.result.instructions :
            assembly.result.machineCode[instrPlace(k)] = assembly.result.instructions[k][2]

\* the text of one line ".name v"
dataText(name, v) == Parsed(<< AsmDirective(name, 1, << num(v) >>) >>)

\* C36: .byte and .half with a value of 2^(8 size) or more fail with an error,
\* the value 2^(8 size) itself included, and a sized data directive that is
\* accepted gives as many bytes as its size, whose little-endian value is the
\* value given: one word holding it (two words for .dword, the second zero).
C36_SizedDataFits ==
   \A name \in DOMAIN sizedData : \A v \in dataValues[name] :
      assembly.done /\ assembly.program = dataText(name, v) =>
         /\ sizedData[name] <= 2 /\ v >= 2 ^ (8 * sizedData[name]) =>
               assembly.result.thrown # "none"
         /\ assembly.result.thrown = "none" =>
               /\ Len(assembly.result.machineCode) = (sizedData[name] + 3) \div 4
               /\ assembly.result.machineCode[1] = bigOf(v)
               /\ \A k \in 2..Len(assembly.result.machineCode) :
                     assembly.result.machineCode[k] = big(0)

\* ------------------------------------------------------------------------
\* The VisualSim
\* ------------------------------------------------------------------------

\* the simulator is as it was
simulatorUnchanged ==
   UNCHANGED << code, wires, state, instruction, data, readOutput, val, output,
                registers, out1, out2 >>

C38_OnePlayTimer ==
   /\ [](ui.timers = IF ui.playing = 0 THEN {} ELSE {ui.playing})
   /\ [][/\ called' \in {"pause", "restart", "reset"} =>
               ui'.timers = {} /\ ui'.playing = 0
         /\ called' = "callback" /\ ui'.state # "running" =>
               ui'.timers = {} /\ ui'.playing = 0
         /\ called' = "callback" /\ ui'.state = "running" =>
               ui'.timers = ui.timers /\ ui'.playing = ui.playing]_vars

\* C38's case: a second timer has replaced the first, its callback has ticked
\* the program to its end, and no timer is left.
C38_Witness_TimerClearedAtEnd ==
   /\ called = "callback" /\ ui.state = "done" /\ ui.ticked = "false"
   /\ ui.handles = 2
   /\ ui.timers = {} /\ ui.playing = 0

====
